---- MODULE Spec2Model ----
(***************************************************************************)
(* A model of the auth utilities: the Base64 / Base32 codecs, the HMAC     *)
(* wrapper, the HOTP / TOTP engine and the cookie functions.                *)
(*                                                                         *)
(* Text is a sequence of Unicode code points, binary data a sequence of     *)
(* bytes (0..255).  JavaScript's optional values are sets: {} is           *)
(* undefined, {v} is the value v.                                           *)
(***************************************************************************)
EXTENDS Integers, Sequences, FiniteSets, TLC

VARIABLES
    op,     \* the operation that ran last ("start" before the first call)
    arg,    \* its arguments
    ret,    \* its outcome: [kind |-> "ok", value |-> v] or [kind |-> "throw", error |-> e]
    calls,  \* the calls it made to the platform's HMAC (subtle.sign / subtle.verify), in order
    now,    \* the platform clock, Date.now(), in milliseconds
    held    \* what the caller keeps from the earlier calls of the run

vars == <<op, arg, ret, calls, now, held>>

(***************************************************************************)
(* Bounds of the model.                                                    *)
(***************************************************************************)
\* longest byte sequence given to the codecs
MaxBytes == 5
\* most advances of the clock between generating an OTP and verifying it
MaxTicks == 2

(***************************************************************************)
(* Text and number helpers.                                                *)
(***************************************************************************)
None == {}
Some(v) == {v}
Get(o) == CHOOSE v \in o : TRUE

\* the element of a one-element set; The({e(v) : v \in {x}}) is e(x) with x worked out once
The(s) == CHOOSE v \in s : TRUE

\* the two outcomes of a call: a value returned, an error thrown
Ok(v) == [kind |-> "ok", value |-> v]
Throw(name, message) == [kind |-> "throw", error |-> [name |-> name, message |-> message]]

\* the printable ASCII characters, code points 32..126 (the grave accent, 96, is
\* spelled out: the character cannot be written in a string here)
Ascii ==
    << " ", "!", "\"", "#", "$", "%", "&", "'", "(", ")", "*", "+", ",", "-", ".", "/",
       "0", "1", "2", "3", "4", "5", "6", "7", "8", "9", ":", ";", "<", "=", ">", "?",
       "@", "A", "B", "C", "D", "E", "F", "G", "H", "I", "J", "K", "L", "M", "N", "O",
       "P", "Q", "R", "S", "T", "U", "V", "W", "X", "Y", "Z", "[", "\\", "]", "^", "_",
       "grave", "a", "b", "c", "d", "e", "f", "g", "h", "i", "j", "k", "l", "m", "n", "o",
       "p", "q", "r", "s", "t", "u", "v", "w", "x", "y", "z", "{", "|", "}", "~" >>

\* the code point of a printable ASCII character
Ord(c) == 31 + (CHOOSE i \in 1..Len(Ascii) : Ascii[i] = c)

\* the text made of the given characters
Txt(cs) == [i \in 1..Len(cs) |-> Ord(cs[i])]

Range(s) == {s[i] : i \in 1..Len(s)}

RECURSIVE Pow2(_)
Pow2(k) == IF k = 0 THEN 1 ELSE 2 * Pow2(k - 1)

RECURSIVE Pow10(_)
Pow10(k) == IF k = 0 THEN 1 ELSE 10 * Pow10(k - 1)

\* JavaScript's x << k on a 32-bit signed integer x, 0 <= k <= 30
Shl(x, k) ==
    IF k = 0 THEN x
    ELSE LET m    == Pow2(31 - k)
             lo   == x % m
             sign == (x \div m) % 2
         IN  IF sign = 1 THEN (lo * Pow2(k) - Pow2(30)) - Pow2(30) ELSE lo * Pow2(k)

\* JavaScript's (x >> k) & mask on a 32-bit signed integer x, mask = 2^n - 1
ShrAnd(x, k, mask) == (x \div Pow2(k)) % (mask + 1)

\* all byte sequences over the byte values vals of length 0..n
RECURSIVE SeqsUpTo(_, _)
SeqsUpTo(vals, n) ==
    IF n = 0 THEN {<<>>}
    ELSE LET shorter == SeqsUpTo(vals, n - 1)
         IN  shorter \cup {Append(s, v) : s \in {t \in shorter : Len(t) = n - 1}, v \in vals}

(***************************************************************************)
(* The platform's UTF-8 coders (TextEncoder, TextDecoder).                  *)
(***************************************************************************)
ReplacementChar == 65533

\* TextEncoder.encode of one code point (a lone surrogate becomes U+FFFD)
EncodeCodePoint(c) ==
    LET cp == IF c >= 55296 /\ c <= 57343 THEN ReplacementChar ELSE c
    IN  IF cp < 128 THEN <<cp>>
        ELSE IF cp < 2048 THEN <<192 + (cp \div 64), 128 + (cp % 64)>>
        ELSE IF cp < 65536
             THEN <<224 + (cp \div 4096), 128 + ((cp \div 64) % 64), 128 + (cp % 64)>>
        ELSE <<240 + (cp \div 262144), 128 + ((cp \div 4096) % 64),
               128 + ((cp \div 64) % 64), 128 + (cp % 64)>>

\* the sequences seqs[i], ..., seqs[j] one after the other
RECURSIVE Flatten(_, _, _)
Flatten(seqs, i, j) ==
    IF i > j THEN <<>>
    ELSE IF i = j THEN seqs[i]
    ELSE Flatten(seqs, i, (i + j) \div 2) \o Flatten(seqs, ((i + j) \div 2) + 1, j)

TextEncode(text) ==
    Flatten([i \in 1..Len(text) |-> EncodeCodePoint(text[i])], 1, Len(text))

\* The WHATWG UTF-8 decoder without the fatal flag: i is the next byte, need / seen
\* the continuation bytes wanted / read, cp the code point so far, lo..hi the range
\* allowed for the next continuation byte.
RECURSIVE Utf8Loop(_, _, _, _, _, _, _, _)
Utf8Loop(bytes, i, need, seen, cp, lo, hi, out) ==
    IF i > Len(bytes)
    THEN IF need # 0 THEN Append(out, ReplacementChar) ELSE out
    ELSE LET b == bytes[i]
         IN  IF need = 0
             THEN IF b <= 127 THEN Utf8Loop(bytes, i + 1, 0, 0, 0, 128, 191, Append(out, b))
                  ELSE IF b >= 194 /\ b <= 223
                       THEN Utf8Loop(bytes, i + 1, 1, 0, b % 32, 128, 191, out)
                  ELSE IF b >= 224 /\ b <= 239
                       THEN Utf8Loop(bytes, i + 1, 2, 0, b % 16,
                                     IF b = 224 THEN 160 ELSE 128,
                                     IF b = 237 THEN 159 ELSE 191, out)
                  ELSE IF b >= 240 /\ b <= 244
                       THEN Utf8Loop(bytes, i + 1, 3, 0, b % 8,
                                     IF b = 240 THEN 144 ELSE 128,
                                     IF b = 244 THEN 143 ELSE 191, out)
                  ELSE Utf8Loop(bytes, i + 1, 0, 0, 0, 128, 191, Append(out, ReplacementChar))
             ELSE IF b < lo \/ b > hi
                  THEN Utf8Loop(bytes, i, 0, 0, 0, 128, 191, Append(out, ReplacementChar))
                  ELSE IF seen + 1 = need
                       THEN Utf8Loop(bytes, i + 1, 0, 0, 0, 128, 191,
                                     Append(out, cp * 64 + (b % 64)))
                       ELSE Utf8Loop(bytes, i + 1, need, seen + 1, cp * 64 + (b % 64),
                                     128, 191, out)

\* new TextDecoder().decode(bytes): UTF-8, errors replaced, a leading BOM dropped
TextDecode(bytes) ==
    LET body == IF Len(bytes) >= 3 /\ SubSeq(bytes, 1, 3) = <<239, 187, 191>>
                THEN SubSeq(bytes, 4, Len(bytes)) ELSE bytes
    IN  Utf8Loop(body, 1, 0, 0, 0, 128, 191, <<>>)

(***************************************************************************)
(* base64.ts                                                               *)
(***************************************************************************)
UpperCase == [i \in 1..26 |-> 64 + i]
LowerCase == [i \in 1..26 |-> 96 + i]
Digits == [i \in 1..10 |-> 47 + i]
PadChar == Ord("=")

\* a Map built by createDecodeMap: a later index overwrites an earlier one
createDecodeMap(alphabet) ==
    [c \in Range(alphabet) |->
        (CHOOSE i \in 1..Len(alphabet) :
            alphabet[i] = c /\ \A j \in 1..Len(alphabet) : alphabet[j] = c => j <= i) - 1]

base64GetAlphabet(urlSafe) ==
    UpperCase \o LowerCase \o Digits
        \o (IF urlSafe THEN Txt(<<"-", "_">>) ELSE Txt(<<"+", "/">>))

\* the inner loop, while (shift >= 6), of base64Encode: <<shift, result>>
RECURSIVE base64EncodeEmit(_, _, _, _)
base64EncodeEmit(buffer, shift, result, alphabet) ==
    IF shift >= 6
    THEN base64EncodeEmit(buffer, shift - 6,
                          Append(result, alphabet[ShrAnd(buffer, shift - 6, 63) + 1]), alphabet)
    ELSE <<shift, result>>

\* the body of the loop over the bytes of base64Encode, for the byte at i: the
\* <<buffer, shift, result>> after it
base64EncodeStep(data, i, state, alphabet) ==
    The({ The({ <<buf, emit[1], emit[2]>> :
                emit \in {base64EncodeEmit(buf, state[2] + 8, state[3], alphabet)} }) :
          buf \in {Shl(state[1], 8) + data[i]} })

\* the loop over the bytes i..j of base64Encode, taken in two halves so that its
\* evaluation stays shallow
RECURSIVE base64EncodeLoop(_, _, _, _, _)
base64EncodeLoop(data, i, j, state, alphabet) ==
    IF i > j THEN state
    ELSE IF i = j THEN base64EncodeStep(data, i, state, alphabet)
    ELSE The({ base64EncodeLoop(data, ((i + j) \div 2) + 1, j, half, alphabet) :
               half \in {base64EncodeLoop(data, i, (i + j) \div 2, state, alphabet)} })

\* no padding at all
RepeatPad_None(result, n) == result

RepeatPad(result, n) == result \o [i \in 1..n |-> PadChar]

base64Encode(data, alphabet, padding) ==
    LET loop   == base64EncodeLoop(data, 1, Len(data), <<0, 0, <<>>>>, alphabet)
        buffer == loop[1]
        shift  == loop[2]
        body   == IF shift > 0
                  THEN Append(loop[3], alphabet[ShrAnd(Shl(buffer, 6 - shift), 0, 63) + 1])
                  ELSE loop[3]
    IN  IF padding THEN RepeatPad(body, (4 - (Len(body) % 4)) % 4) ELSE body

\* One chunk of four characters of base64Decode, from character j of chunk i (both
\* from 0): <<"ok", padCount, buffer>> or <<"throw", character>>.
RECURSIVE base64DecodeChunk(_, _, _, _, _, _)
base64DecodeChunk(data, decodeMap, i, j, padCount, buffer) ==
    IF j = 4 THEN <<"ok", padCount, buffer>>
    ELSE LET pos == i * 4 + j + 1
         IN  IF pos > Len(data) \/ data[pos] = PadChar
             THEN base64DecodeChunk(data, decodeMap, i, j + 1, padCount + 1, buffer)
             ELSE IF data[pos] \notin DOMAIN decodeMap
                  THEN <<"throw", data[pos]>>
                  ELSE base64DecodeChunk(data, decodeMap, i, j + 1, padCount,
                                         buffer + Shl(decodeMap[data[pos]], 6 * (3 - j)))

\* the bytes one chunk pushes
base64ChunkBytes(padCount, buffer) ==
    <<ShrAnd(buffer, 16, 255)>>
        \o (IF padCount < 2 THEN <<ShrAnd(buffer, 8, 255)>> ELSE <<>>)
        \o (IF padCount < 1 THEN <<ShrAnd(buffer, 0, 255)>> ELSE <<>>)

RECURSIVE base64DecodeLoop(_, _, _, _, _)
base64DecodeLoop(data, decodeMap, i, chunkCount, result) ==
    IF i >= chunkCount THEN Ok(result)
    ELSE LET chunk == base64DecodeChunk(data, decodeMap, i, 0, 0, 0)
         IN  IF chunk[1] = "throw"
             THEN Throw("Error", Txt(<<"I", "n", "v", "a", "l", "i", "d", " ", "c", "h", "a",
                                       "r", "a", "c", "t", "e", "r", ":", " ">>) \o <<chunk[2]>>)
             ELSE base64DecodeLoop(data, decodeMap, i + 1, chunkCount,
                                   result \o base64ChunkBytes(chunk[2], chunk[3]))

base64Decode(data, alphabet) ==
    base64DecodeLoop(data, createDecodeMap(alphabet), 0, (Len(data) + 3) \div 4, <<>>)

\* base64.encode that ignores its options: the standard alphabet, padded
base64_encode_Padded(data, options) ==
    base64Encode(IF data.type = "string" THEN TextEncode(data.val) ELSE data.val,
                 base64GetAlphabet(FALSE), TRUE)

\* base64.encode: data is [type |-> "string" or "bytes", val |-> ...], options has the
\* optional fields urlSafe and padding
base64_encode(data, options) ==
    The({ base64Encode(bytes, alphabet,
                       IF options.padding = None THEN TRUE ELSE Get(options.padding)) :
          alphabet \in {base64GetAlphabet(IF options.urlSafe = None THEN FALSE
                                          ELSE Get(options.urlSafe))},
          bytes \in {IF data.type = "string" THEN TextEncode(data.val) ELSE data.val} })

\* base64.decode without the detection of the alphabet
base64_decode_Standard(data) ==
    LET decoded == base64Decode(data, base64GetAlphabet(FALSE))
    IN  IF decoded.kind = "throw" THEN decoded
        ELSE Ok([type |-> "string", val |-> TextDecode(decoded.value)])

\* base64.decode: the outcome's value is a string, [type |-> "string", val |-> text]
base64_decode(data) ==
    LET isUrlSafe == Ord("-") \in Range(data) \/ Ord("_") \in Range(data)
        decoded   == base64Decode(data, base64GetAlphabet(isUrlSafe))
    IN  IF decoded.kind = "throw" THEN decoded
        ELSE Ok([type |-> "string", val |-> TextDecode(decoded.value)])

(***************************************************************************)
(* base32.ts                                                               *)
(***************************************************************************)
base32GetAlphabet(hex) ==
    IF hex THEN Digits \o SubSeq(UpperCase, 1, 22)
    ELSE UpperCase \o SubSeq(Digits, 3, 8)

RECURSIVE base32EncodeEmit(_, _, _, _)
base32EncodeEmit(buffer, shift, result, alphabet) ==
    IF shift >= 5
    THEN base32EncodeEmit(buffer, shift - 5,
                          Append(result, alphabet[ShrAnd(buffer, shift - 5, 31) + 1]), alphabet)
    ELSE <<shift, result>>

RECURSIVE base32EncodeLoop(_, _, _, _, _, _)
base32EncodeLoop(data, i, buffer, shift, result, alphabet) ==
    IF i > Len(data) THEN <<buffer, shift, result>>
    ELSE LET buf  == Shl(buffer, 8) + data[i]
             emit == base32EncodeEmit(buf, shift + 8, result, alphabet)
         IN  base32EncodeLoop(data, i + 1, buf, emit[1], emit[2], alphabet)

\* base32Encode without the final symbol for the leftover bits
base32Encode_NoLeftover(data, alphabet, padding) ==
    LET body == base32EncodeLoop(data, 1, 0, 0, <<>>, alphabet)[3]
    IN  IF padding THEN RepeatPad(body, (8 - (Len(body) % 8)) % 8) ELSE body

base32Encode(data, alphabet, padding) ==
    LET loop   == base32EncodeLoop(data, 1, 0, 0, <<>>, alphabet)
        buffer == loop[1]
        shift  == loop[2]
        body   == IF shift > 0
                  THEN Append(loop[3], alphabet[ShrAnd(Shl(buffer, 5 - shift), 0, 31) + 1])
                  ELSE loop[3]
    IN  IF padding THEN RepeatPad(body, (8 - (Len(body) % 8)) % 8) ELSE body

\* the inner loop, while (bitsCollected >= 8), of base32Decode: <<bitsCollected, result>>
RECURSIVE base32DecodeEmit(_, _, _)
base32DecodeEmit(buffer, bitsCollected, result) ==
    IF bitsCollected >= 8
    THEN base32DecodeEmit(buffer, bitsCollected - 8,
                          Append(result, ShrAnd(buffer, bitsCollected - 8, 255)))
    ELSE <<bitsCollected, result>>

RECURSIVE base32DecodeLoop(_, _, _, _, _, _)
base32DecodeLoop(data, decodeMap, i, buffer, bitsCollected, result) ==
    IF i > Len(data) \/ data[i] = PadChar THEN Ok(result)
    ELSE IF data[i] \notin DOMAIN decodeMap
         THEN Throw("Error", Txt(<<"I", "n", "v", "a", "l", "i", "d", " ", "B", "a", "s", "e",
                                   "3", "2", " ", "c", "h", "a", "r", "a", "c", "t", "e", "r",
                                   ":", " ">>) \o <<data[i]>>)
         ELSE LET buf  == Shl(buffer, 5) + decodeMap[data[i]]
                  emit == base32DecodeEmit(buf, bitsCollected + 5, result)
              IN  base32DecodeLoop(data, decodeMap, i + 1, buf, emit[1], emit[2])

base32Decode(data, alphabet) ==
    base32DecodeLoop(data, createDecodeMap(alphabet), 1, 0, 0, <<>>)

\* base32.encode (hex = FALSE) and base32hex.encode (hex = TRUE)
base32_encode(hex, data, options) ==
    LET buffer == IF data.type = "string" THEN TextEncode(data.val) ELSE data.val
    IN  base32Encode(buffer, base32GetAlphabet(hex),
                     IF options.padding = None THEN TRUE ELSE Get(options.padding))

\* base32.decode (hex = FALSE) and base32hex.decode (hex = TRUE): the value is bytes
base32_decode(hex, data) ==
    LET decoded == base32Decode(data, base32GetAlphabet(hex))
    IN  IF decoded.kind = "throw" THEN decoded
        ELSE Ok([type |-> "bytes", val |-> decoded.value])

(***************************************************************************)
(* hmac.ts, with the platform's HMAC (subtle.importKey / sign / verify).    *)
(* The platform's MAC is a fixed deterministic function of the hash, the    *)
(* key and the message, as long as the hash's digest.  In this model one    *)
(* seed in sixteen gives a MAC made of capital letters, so that a text can  *)
(* have the bytes of a MAC.                                                 *)
(***************************************************************************)
BytesOf(data) == IF data.type = "string" THEN TextEncode(data.val) ELSE data.val
Str(text) == [type |-> "string", val |-> text]
Bytes(b) == [type |-> "bytes", val |-> b]
Bool(b) == [type |-> "boolean", val |-> b]

HashLen(hash) ==
    CASE hash = "SHA-1" -> 20
      [] hash = "SHA-256" -> 32
      [] hash = "SHA-384" -> 48
      [] hash = "SHA-512" -> 64

RECURSIVE MacMix(_, _, _)
MacMix(h, bytes, i) ==
    IF i > Len(bytes) THEN h ELSE MacMix((h * 31 + bytes[i]) % 65521, bytes, i + 1)

MacSeed(hash, key, data) ==
    MacMix((MacMix(HashLen(hash), key, 1) * 31 + 256) % 65521, data, 1)

\* the MAC of the given length for a seed
MacBytes(seed, length) ==
    [n \in 1..length |->
        LET i == n - 1
        IN  IF seed % 16 = 0 THEN 65 + (((seed \div 16) + i * 7) % 26)
            ELSE ((seed % 256) * (2 * i + 1) + (seed \div 256) * (i + 3) + i) % 256]

\* subtle.sign("HMAC", key, data)
SubtleSign(hash, key, data) ==
    The({MacBytes(seed, HashLen(hash)) : seed \in {MacSeed(hash, key, data)}})

\* subtle.verify("HMAC", key, signature, data)
SubtleVerify(hash, key, signature, data) == signature = SubtleSign(hash, key, data)

\* hmac.importKey: the CryptoKey
hmac_importKey(algorithm, key) == [algorithm |-> algorithm, raw |-> BytesOf(key)]

\* hmac.sign(hmacKey, data, hash) with a string key: [ret, calls]
hmac_sign(hmacKey, data, hash) ==
    LET key == hmac_importKey(hash, hmacKey)
    IN  [ret   |-> Ok(Bytes(SubtleSign(key.algorithm, key.raw, BytesOf(data)))),
         calls |-> << [fn |-> "sign", hash |-> key.algorithm, key |-> key.raw,
                       signature |-> None, data |-> BytesOf(data)] >>]

\* hmac.verify(hmacKey, {signature, data}) with a string key: [ret, calls].  The
\* signature may be undefined (None), which subtle.verify rejects with a TypeError.
hmac_verify(hmacKey, signature, data) ==
    LET key == hmac_importKey("SHA-256", hmacKey)
    IN  IF signature = None
        THEN [ret |-> Throw("TypeError", <<>>), calls |-> <<>>]
        ELSE [ret   |-> Ok(Bool(SubtleVerify(key.algorithm, key.raw,
                                             BytesOf(Get(signature)), BytesOf(data)))),
              calls |-> << [fn |-> "verify", hash |-> key.algorithm, key |-> key.raw,
                            signature |-> Some(BytesOf(Get(signature))),
                            data |-> BytesOf(data)] >>]

(***************************************************************************)
(* createOTP (otp.ts): generateHOTP, generateTOTP, verifyTOTP.  An engine   *)
(* is the record of createOTP's arguments.                                  *)
(***************************************************************************)
createOTP(hash, digits, seconds) == [hash |-> hash, digits |-> digits, seconds |-> seconds]

\* new DataView(buffer).setBigUint64(0, BigInt(counter), false): the 8 bytes of the
\* counter modulo 2^64, most significant first
CounterBytes(counter) ==
    [n \in 1..8 |->
        IF n <= 4 THEN (IF counter < 0 THEN 255 ELSE 0)
        ELSE (counter \div Pow2(8 * (8 - n))) % 256]

\* Number.prototype.toString of a natural number
RECURSIVE ToDecimal(_)
ToDecimal(n) ==
    IF n < 10 THEN <<Ord("0") + n>>
    ELSE Append(ToDecimal(n \div 10), Ord("0") + (n % 10))

\* String.prototype.padStart with a one-character pad
PadStart(text, length, pad) ==
    IF Len(text) >= length THEN text
    ELSE [i \in 1..(length - Len(text)) |-> pad] \o text

DigitsError ==
    Throw("TypeError", Txt(<<"D", "i", "g", "i", "t", "s", " ", "m", "u", "s", "t", " ", "b",
                             "e", " ", "b", "e", "t", "w", "e", "e", "n", " ", "1", " ", "a",
                             "n", "d", " ", "8">>))

\* the 31-bit value of the first four MAC bytes
Truncate_NoOffset(hmacResult) ==
    (hmacResult[1] % 128) * Pow2(24) + hmacResult[2] * Pow2(16) + hmacResult[3] * Pow2(8)
        + hmacResult[4]

\* the 31-bit value of the four MAC bytes at the offset its last byte selects
Truncate(hmacResult) ==
    LET offset == hmacResult[Len(hmacResult)] % 16
    IN  (hmacResult[offset + 1] % 128) * Pow2(24)
            + hmacResult[offset + 2] * Pow2(16)
            + hmacResult[offset + 3] * Pow2(8)
            + hmacResult[offset + 4]

\* generateHOTP that signs the counter before it looks at the digits
generateHOTP_SignsFirst(engine, secret, counter, digits) ==
    LET _digits == IF digits = None THEN engine.digits ELSE Get(digits)
    IN  The({ IF _digits < 1 \/ _digits > 8
              THEN [ret |-> DigitsError, calls |-> signed.calls]
              ELSE [ret   |-> Ok(Str(PadStart(ToDecimal(Truncate(signed.ret.value.val)
                                                           % Pow10(_digits)),
                                              _digits, Ord("0")))),
                    calls |-> signed.calls] :
              signed \in {hmac_sign(Str(secret), Bytes(CounterBytes(counter)),
                                    engine.hash)} })

\* generateHOTP(secret, {counter, digits}): [ret, calls]
generateHOTP(engine, secret, counter, digits) ==
    LET _digits == IF digits = None THEN engine.digits ELSE Get(digits)
    IN  IF _digits < 1 \/ _digits > 8 THEN [ret |-> DigitsError, calls |-> <<>>]
        ELSE The({ LET otp == Truncate(signed.ret.value.val) % Pow10(_digits)
                   IN  [ret   |-> Ok(Str(PadStart(ToDecimal(otp), _digits, Ord("0")))),
                        calls |-> signed.calls] :
                   signed \in {hmac_sign(Str(secret), Bytes(CounterBytes(counter)),
                                         engine.hash)} })

\* generateTOTP(secret, {milliseconds = 3000, digits = defaultDigits}) at the instant clock
generateTOTP(engine, clock, secret, milliseconds, digits) ==
    LET ms      == IF milliseconds = None THEN 3000 ELSE Get(milliseconds)
        _digits == IF digits = None THEN engine.digits ELSE Get(digits)
    IN  generateHOTP(engine, secret, clock \div ms, Some(_digits))

\* the loop of verifyTOTP stopping one offset early (i < window)
RECURSIVE verifyTOTPLoop_Short(_, _, _, _, _, _, _, _)
verifyTOTPLoop_Short(engine, otp, secret, counter, digits, i, window, made) ==
    IF i >= window THEN [ret |-> Ok(Bool(FALSE)), calls |-> made]
    ELSE The({ IF generated.ret.kind = "throw"
               THEN [ret |-> generated.ret, calls |-> made \o generated.calls]
               ELSE IF otp = generated.ret.value.val
                    THEN [ret |-> Ok(Bool(TRUE)), calls |-> made \o generated.calls]
                    ELSE verifyTOTPLoop_Short(engine, otp, secret, counter, digits, i + 1,
                                              window, made \o generated.calls) :
               generated \in {generateHOTP(engine, secret, counter + i, Some(digits))} })

\* the loop of verifyTOTP, from the offset i
RECURSIVE verifyTOTPLoop(_, _, _, _, _, _, _, _)
verifyTOTPLoop(engine, otp, secret, counter, digits, i, window, made) ==
    IF i > window THEN [ret |-> Ok(Bool(FALSE)), calls |-> made]
    ELSE The({ IF generated.ret.kind = "throw"
               THEN [ret |-> generated.ret, calls |-> made \o generated.calls]
               ELSE IF otp = generated.ret.value.val
                    THEN [ret |-> Ok(Bool(TRUE)), calls |-> made \o generated.calls]
                    ELSE verifyTOTPLoop(engine, otp, secret, counter, digits, i + 1,
                                        window, made \o generated.calls) :
               generated \in {generateHOTP(engine, secret, counter + i, Some(digits))} })

\* verifyTOTP(otp, {window = 1, digits = defaultDigits, secret, seconds = defaultSeconds})
\* at the instant clock
verifyTOTP(engine, clock, otp, options) ==
    LET window       == IF options.window = None THEN 1 ELSE Get(options.window)
        digits       == IF options.digits = None THEN engine.digits ELSE Get(options.digits)
        seconds      == IF options.seconds = None THEN engine.seconds ELSE Get(options.seconds)
        milliseconds == seconds * 1000
        counter      == clock \div milliseconds
    IN  verifyTOTPLoop(engine, otp, options.secret, counter, digits, 0 - window, window, <<>>)

(***************************************************************************)
(* The string functions of the platform that cookies.ts uses.               *)
(***************************************************************************)
\* the characters String.prototype.trim removes
WhiteSpace ==
    {9, 10, 11, 12, 13, 32, 160, 5760, 8232, 8233, 8239, 8287, 12288, 65279}
        \cup (8192..8202)

\* text.startsWith(pat, i - 1): pat occurs in text at position i (from 1)
StartsWithAt(text, pat, i) ==
    /\ i + Len(pat) - 1 <= Len(text)
    /\ SubSeq(text, i, i + Len(pat) - 1) = pat

StartsWith(text, pat) == StartsWithAt(text, pat, 1)
EndsWith(text, pat) == Len(pat) <= Len(text) /\ StartsWithAt(text, pat, Len(text) - Len(pat) + 1)

\* text.indexOf(pat, i - 1) + 1: the first position >= i where pat occurs, 0 when none
IndexOfFrom(text, pat, i) ==
    LET hits == {k \in i..Len(text) : StartsWithAt(text, pat, k)}
    IN  IF hits = {} THEN 0 ELSE CHOOSE k \in hits : \A other \in hits : k <= other

\* text.split(sep) for a non-empty separator
RECURSIVE Split(_, _)
Split(text, sep) ==
    LET k == IndexOfFrom(text, sep, 1)
    IN  IF k = 0 THEN <<text>>
        ELSE <<SubSeq(text, 1, k - 1)>> \o Split(SubSeq(text, k + Len(sep), Len(text)), sep)

\* parts.join(sep)
RECURSIVE Join(_, _)
Join(parts, sep) ==
    IF Len(parts) = 0 THEN <<>>
    ELSE IF Len(parts) = 1 THEN parts[1]
    ELSE parts[1] \o sep \o Join(Tail(parts), sep)

RECURSIVE TrimStart(_)
TrimStart(text) ==
    IF text # <<>> /\ Head(text) \in WhiteSpace THEN TrimStart(Tail(text)) ELSE text

RECURSIVE TrimEnd(_)
TrimEnd(text) ==
    IF text # <<>> /\ text[Len(text)] \in WhiteSpace
    THEN TrimEnd(SubSeq(text, 1, Len(text) - 1)) ELSE text

\* text.trim()
Trim(text) == TrimEnd(TrimStart(text))

\* text.toLowerCase() and text.toUpperCase(), for the letters of ASCII
ToLowerCase(text) ==
    [i \in 1..Len(text) |-> IF text[i] >= 65 /\ text[i] <= 90 THEN text[i] + 32 ELSE text[i]]
ToUpperCase(text) ==
    [i \in 1..Len(text) |-> IF text[i] >= 97 /\ text[i] <= 122 THEN text[i] - 32 ELSE text[i]]

\* the letters of ASCII and the digits
IsAlphaNum(c) == (c >= 48 /\ c <= 57) \/ (c >= 65 /\ c <= 90) \/ (c >= 97 /\ c <= 122)

IsHexDigit(c) == (c >= 48 /\ c <= 57) \/ (c >= 65 /\ c <= 70) \/ (c >= 97 /\ c <= 102)
HexValue(c) == IF c <= 57 THEN c - 48 ELSE IF c <= 70 THEN c - 55 ELSE c - 87
HexDigit(n) == IF n < 10 THEN 48 + n ELSE 55 + n

URIError == Throw("URIError", Txt(<<"U", "R", "I", " ", "m", "a", "l", "f", "o", "r", "m",
                                  "e", "d">>))

\* the number of bytes of the UTF-8 sequence that the byte b starts (1 for a continuation
\* byte, 5 for a byte no sequence starts with)
LeadingOnes(b) ==
    IF b < 192 THEN 1 ELSE IF b < 224 THEN 2 ELSE IF b < 240 THEN 3 ELSE IF b < 248 THEN 4 ELSE 5

\* the bytes of the n - 1 escapes %XX that follow the position k (the first escape ends at
\* k - 1), or <<-1>> when they are not n - 1 escapes of continuation bytes
RECURSIVE ContinuationOctets(_, _, _)
ContinuationOctets(text, k, left) ==
    IF left = 0 THEN <<>>
    ELSE IF text[k] # 37 \/ ~IsHexDigit(text[k + 1]) \/ ~IsHexDigit(text[k + 2]) THEN <<-1>>
    ELSE LET b    == 16 * HexValue(text[k + 1]) + HexValue(text[k + 2])
             rest == ContinuationOctets(text, k + 3, left - 1)
         IN  IF b < 128 \/ b > 191 \/ rest = <<-1>> THEN <<-1>> ELSE <<b>> \o rest

\* decodeURIComponent(text) from position k on, given the text decoded so far: Ok(text)
\* or the URIError.  The characters up to the next "%" are taken as they are.
RECURSIVE DecodeLoop(_, _, _)
DecodeLoop(text, k, out) ==
    IF k > Len(text) THEN Ok(out)
    ELSE IF text[k] # 37
    THEN The({ IF next = 0 THEN Ok(out \o SubSeq(text, k, Len(text)))
               ELSE DecodeLoop(text, next, out \o SubSeq(text, k, next - 1)) :
               next \in {IndexOfFrom(text, <<37>>, k)} })
    ELSE IF k + 2 > Len(text) \/ ~IsHexDigit(text[k + 1]) \/ ~IsHexDigit(text[k + 2])
         THEN URIError
    ELSE LET b == 16 * HexValue(text[k + 1]) + HexValue(text[k + 2])
             n == LeadingOnes(b)
         IN  IF b < 128 THEN DecodeLoop(text, k + 3, Append(out, b))
             ELSE IF n = 1 \/ n > 4 \/ k + 3 * n - 1 > Len(text) THEN URIError
             ELSE LET rest == ContinuationOctets(text, k + 3, n - 1)
                      cps  == Utf8Loop(<<b>> \o rest, 1, 0, 0, 0, 128, 191, <<>>)
                  IN  IF rest = <<-1>> \/ Len(cps) # 1 THEN URIError
                      ELSE DecodeLoop(text, k + 3 * n, out \o cps)

decodeURIComponent(text) == DecodeLoop(text, 1, <<>>)

\* the characters encodeURIComponent leaves as they are: A-Z a-z 0-9 - _ . ! ~ * ' ( )
UriUnreserved(c) == IsAlphaNum(c) \/ c \in {45, 95, 46, 33, 126, 42, 39, 40, 41}

\* the escapes %XX of the bytes
PercentBytes(bytes) ==
    Flatten([i \in 1..Len(bytes) |->
                <<37, HexDigit(bytes[i] \div 16), HexDigit(bytes[i] % 16)>>], 1, Len(bytes))

\* encodeURIComponent(text): Ok(text), or the URIError for a lone surrogate
encodeURIComponent(text) ==
    IF \E k \in 1..Len(text) : text[k] >= 55296 /\ text[k] <= 57343 THEN URIError
    ELSE Ok(Flatten([k \in 1..Len(text) |->
                        IF UriUnreserved(text[k]) THEN <<text[k]>>
                        ELSE PercentBytes(EncodeCodePoint(text[k]))], 1, Len(text)))

(***************************************************************************)
(* cookies.ts: verifySignedCookie, parseCookies, getCookie.                 *)
(***************************************************************************)
\* validCookieValueRegEx: /^[ !#-:<-[\]-~]*$/
validCookieValueRegEx(text) ==
    \A i \in 1..Len(text) :
        \/ text[i] \in {32, 33}
        \/ text[i] >= 35 /\ text[i] <= 58
        \/ text[i] >= 60 /\ text[i] <= 91
        \/ text[i] >= 93 /\ text[i] <= 126

\* validCookieNameRegEx: /^[\w!#$%&'*.^`|~+-]+$/
validCookieNameRegEx(text) ==
    /\ text # <<>>
    /\ \A i \in 1..Len(text) :
           \/ IsAlphaNum(text[i])
           \/ text[i] \in {95, 33, 35, 36, 37, 38, 39, 42, 46, 94, 96, 124, 126, 43, 45}

Dot == Txt(<<".">>)

\* const [value, signature] = text.split("."): the first two segments, the second
\* undefined (None) when the text has no "."
SplitSigned(text) ==
    LET parts == Split(text, Dot)
    IN  [value |-> parts[1],
         signature |-> IF Len(parts) >= 2 THEN Some(parts[2]) ELSE None]

\* verifySignedCookie without the test of line 194
verifySignedCookie_Unguarded(cookie, key) ==
    LET parts == SplitSigned(cookie)
    IN  hmac_verify(Str(key),
                    IF parts.signature = None THEN None
                    ELSE Some(Str(Get(parts.signature))),
                    Str(parts.value))

\* verifySignedCookie({cookie, key}): [ret, calls]
verifySignedCookie(cookie, key) ==
    LET parts == SplitSigned(cookie)
    IN  IF parts.value = <<>> \/ parts.signature = None \/ parts.signature = Some(<<>>)
        THEN [ret |-> Ok(Bool(FALSE)), calls |-> <<>>]
        ELSE hmac_verify(Str(key), Some(Str(Get(parts.signature))), Str(parts.value))

\* a Map: set and delete
MapSet(map, key, value) ==
    [k \in DOMAIN map \cup {key} |-> IF k = key THEN value ELSE map[k]]
MapDelete(map, key) == [k \in DOMAIN map \ {key} |-> map[k]]
EmptyMap == [k \in {} |-> <<>>]

Equals == Txt(<<"=">>)
Semicolon == Txt(<<";">>)
Quote == Txt(<<"\"">>)

\* the parts of one pair of a Cookie header: the position of its first "=" (0 when it
\* has none), its name and its value without the quotes around it
PairEq(pair) == IndexOfFrom(Trim(pair), Equals, 1)
PairName(pair) == Trim(SubSeq(Trim(pair), 1, PairEq(pair) - 1))
PairValue(pair) ==
    LET pairStr == Trim(pair)
        raw     == Trim(SubSeq(pairStr, PairEq(pair) + 1, Len(pairStr)))
    IN  IF StartsWith(raw, Quote) /\ EndsWith(raw, Quote)
        THEN SubSeq(raw, 2, Len(raw) - 1) ELSE raw

\* the signed part of the loop body of parseCookies without the delete of line 242
parseCookiesSigned_KeepsRaw(cookies, cookieName, cookieValue, key, made) ==
    The({ IF verified.ret.kind = "throw"
          THEN [ret |-> verified.ret, calls |-> made \o verified.calls]
          ELSE IF verified.ret.value.val
               THEN LET decoded == decodeURIComponent(SplitSigned(cookieValue).value)
                    IN  IF decoded.kind = "throw"
                        THEN [ret |-> decoded, calls |-> made \o verified.calls]
                        ELSE [ret |-> Ok(MapSet(cookies, cookieName, decoded.value)),
                              calls |-> made \o verified.calls]
               ELSE [ret |-> Ok(cookies), calls |-> made \o verified.calls] :
          verified \in {hmac_verify(Str(key),
                                    IF SplitSigned(cookieValue).signature = None THEN None
                                    ELSE Some(Str(Get(SplitSigned(cookieValue).signature))),
                                    Str(SplitSigned(cookieValue).value))} })

\* The signed part of the loop body of parseCookies (lines 233-244), for a pair with the
\* target name, given the map after line 231: [ret, calls], ret the map or the error.
parseCookiesSigned(cookies, cookieName, cookieValue, key, made) ==
    The({ IF verified.ret.kind = "throw"
          THEN [ret |-> verified.ret, calls |-> made \o verified.calls]
          ELSE IF verified.ret.value.val
               THEN LET decoded == decodeURIComponent(SplitSigned(cookieValue).value)
                    IN  IF decoded.kind = "throw"
                        THEN [ret |-> decoded, calls |-> made \o verified.calls]
                        ELSE [ret |-> Ok(MapSet(cookies, cookieName, decoded.value)),
                              calls |-> made \o verified.calls]
               ELSE [ret |-> Ok(MapDelete(cookies, cookieName)),
                     calls |-> made \o verified.calls] :
          verified \in {hmac_verify(Str(key),
                                    IF SplitSigned(cookieValue).signature = None THEN None
                                    ELSE Some(Str(Get(SplitSigned(cookieValue).signature))),
                                    Str(SplitSigned(cookieValue).value))} })

\* the body of the loop of parseCookies without the comparison with the target name of
\* line 220
parseCookiesPair_AnyName(pair, name, signed, cookies, made) ==
    IF PairEq(pair) = 0 THEN [ret |-> Ok(cookies), calls |-> made]
    ELSE LET cookieName  == PairName(pair)
             cookieValue == PairValue(pair)
             decoded     == decodeURIComponent(cookieValue)
         IN  IF ~validCookieNameRegEx(cookieName)
             THEN [ret |-> Ok(cookies), calls |-> made]
             ELSE IF validCookieValueRegEx(cookieValue) /\ decoded.kind = "throw"
             THEN [ret |-> decoded, calls |-> made]
             ELSE LET kept == IF validCookieValueRegEx(cookieValue)
                              THEN MapSet(cookies, cookieName, decoded.value)
                              ELSE cookies
                  IN  IF signed # None /\ cookieName = name
                      THEN parseCookiesSigned(kept, cookieName, cookieValue, Get(signed),
                                              made)
                      ELSE [ret |-> Ok(kept), calls |-> made]

\* The body of the loop of parseCookies for one pair, given the map so far: [ret, calls].
parseCookiesPair(pair, name, signed, cookies, made) ==
    IF PairEq(pair) = 0 THEN [ret |-> Ok(cookies), calls |-> made]
    ELSE LET cookieName  == PairName(pair)
             cookieValue == PairValue(pair)
             decoded     == decodeURIComponent(cookieValue)
         IN  IF (name # <<>> /\ name # cookieName) \/ ~validCookieNameRegEx(cookieName)
             THEN [ret |-> Ok(cookies), calls |-> made]
             ELSE IF validCookieValueRegEx(cookieValue) /\ decoded.kind = "throw"
             THEN [ret |-> decoded, calls |-> made]
             ELSE LET kept == IF validCookieValueRegEx(cookieValue)
                              THEN MapSet(cookies, cookieName, decoded.value)
                              ELSE cookies
                  IN  IF signed # None /\ cookieName = name
                      THEN parseCookiesSigned(kept, cookieName, cookieValue, Get(signed),
                                              made)
                      ELSE [ret |-> Ok(kept), calls |-> made]

RECURSIVE parseCookiesLoop(_, _, _, _, _, _)
parseCookiesLoop(pairs, i, name, signed, cookies, made) ==
    IF i > Len(pairs) THEN [ret |-> Ok([type |-> "Map", val |-> cookies]), calls |-> made]
    ELSE The({ IF step.ret.kind = "throw" THEN step
               ELSE parseCookiesLoop(pairs, i + 1, name, signed, step.ret.value, step.calls) :
               step \in {parseCookiesPair(pairs[i], name, signed, cookies, made)} })

\* parseCookies(cookie, name, signed): [ret, calls], the value a Map from names to values
parseCookies(cookie, name, signed) ==
    parseCookiesLoop(Split(Trim(cookie), Semicolon), 1, name, signed, EmptyMap, <<>>)

\* getCookie(cookie, name, signed): [ret, calls], the value (None when absent)
getCookie(cookie, name, signed) ==
    The({ IF parsed.ret.kind = "throw" THEN parsed
          ELSE [ret   |-> Ok([type |-> "optional string",
                              val |-> IF name \in DOMAIN parsed.ret.value.val
                                    THEN Some(parsed.ret.value.val[name]) ELSE None]),
                calls |-> parsed.calls] :
          parsed \in {parseCookies(cookie, name, signed)} })

(***************************************************************************)
(* Numbers and dates of the platform.  A number is NaN or a fraction        *)
(* num / den with den > 0; a Date holds its time value, whole seconds and   *)
(* milliseconds since the epoch, or None when it is an Invalid Date.        *)
(***************************************************************************)
NaN == [type |-> "NaN"]
Num(num, den) == [type |-> "number", num |-> num, den |-> den]
Undefined == [type |-> "undefined"]
Date(time) == [type |-> "Date", time |-> time]
InvalidDate == Date(None)

IsDigit(c) == c >= 48 /\ c <= 57

\* the value of the digits of text from position i on, given the value so far
RECURSIVE DigitsValue(_, _, _)
DigitsValue(text, i, acc) ==
    IF i > Len(text) \/ ~IsDigit(text[i]) THEN acc
    ELSE DigitsValue(text, i + 1, 10 * acc + (text[i] - 48))

\* parseInt(text, 10)
parseInt(text) ==
    LET t    == TrimStart(text)
        sign == IF t # <<>> /\ t[1] = 45 THEN -1 ELSE 1
        body == IF t # <<>> /\ t[1] \in {43, 45} THEN Tail(t) ELSE t
    IN  IF body = <<>> \/ ~IsDigit(body[1]) THEN NaN
        ELSE Num(sign * DigitsValue(body, 1, 0), 1)

DayNames ==
    <<Txt(<<"S", "u", "n">>), Txt(<<"M", "o", "n">>), Txt(<<"T", "u", "e">>),
      Txt(<<"W", "e", "d">>), Txt(<<"T", "h", "u">>), Txt(<<"F", "r", "i">>),
      Txt(<<"S", "a", "t">>)>>

MonthNames ==
    <<Txt(<<"J", "a", "n">>), Txt(<<"F", "e", "b">>), Txt(<<"M", "a", "r">>),
      Txt(<<"A", "p", "r">>), Txt(<<"M", "a", "y">>), Txt(<<"J", "u", "n">>),
      Txt(<<"J", "u", "l">>), Txt(<<"A", "u", "g">>), Txt(<<"S", "e", "p">>),
      Txt(<<"O", "c", "t">>), Txt(<<"N", "o", "v">>), Txt(<<"D", "e", "c">>)>>

\* the date of the day that is the given number of days after 1 January 1970
CivilFromDays(days) ==
    LET z   == days + 719468
        era == z \div 146097
        doe == z - era * 146097
        yoe == (doe - (doe \div 1460) + (doe \div 36524) - (doe \div 146096)) \div 365
        doy == doe - (365 * yoe + (yoe \div 4) - (yoe \div 100))
        mp  == (5 * doy + 2) \div 153
        m   == IF mp < 10 THEN mp + 3 ELSE mp - 9
    IN  [y |-> yoe + era * 400 + (IF m <= 2 THEN 1 ELSE 0), m |-> m,
         d |-> doy - ((153 * mp + 2) \div 5) + 1]

\* the number of days from 1 January 1970 to the given date
DaysFromCivil(y, m, d) ==
    LET yy  == IF m <= 2 THEN y - 1 ELSE y
        era == yy \div 400
        yoe == yy - era * 400
        doy == ((153 * (IF m > 2 THEN m - 3 ELSE m + 9) + 2) \div 5) + d - 1
    IN  era * 146097 + yoe * 365 + (yoe \div 4) - (yoe \div 100) + doy - 719468

TwoDigits(n) == PadStart(ToDecimal(n), 2, 48)

\* date.toUTCString(), for the years 0 to 9999
toUTCString(date) ==
    IF date.time = None THEN Txt(<<"I", "n", "v", "a", "l", "i", "d", " ", "D", "a", "t", "e">>)
    ELSE LET s    == Get(date.time).s
             days == s \div 86400
             secs == s % 86400
             c    == CivilFromDays(days)
         IN  DayNames[((days + 4) % 7) + 1] \o <<44, 32>> \o TwoDigits(c.d) \o <<32>>
                 \o MonthNames[c.m] \o <<32>> \o PadStart(ToDecimal(c.y), 4, 48) \o <<32>>
                 \o TwoDigits(secs \div 3600) \o <<58>> \o TwoDigits((secs \div 60) % 60)
                 \o <<58>> \o TwoDigits(secs % 60) \o <<32, 71, 77, 84>>

\* new Date(text), for a text in the form toUTCString writes; any other text that this
\* model's runs pass is one the platform makes an Invalid Date of
newDate(text) ==
    IF Len(text) # 29 THEN InvalidDate
    ELSE LET month == {i \in 1..12 : MonthNames[i] = SubSeq(text, 9, 11)}
             nums  == <<6, 7, 13, 14, 15, 16, 18, 19, 21, 22, 24, 25>>
         IN  IF month = {} \/ \E i \in 1..Len(nums) : ~IsDigit(text[nums[i]])
             THEN InvalidDate
             ELSE LET d    == DigitsValue(text, 6, 0)
                      y    == DigitsValue(text, 13, 0)
                      time == [s  |-> DaysFromCivil(y, The(month), d) * 86400
                                          + DigitsValue(text, 18, 0) * 3600
                                          + DigitsValue(text, 21, 0) * 60
                                          + DigitsValue(text, 24, 0),
                               ms |-> 0]
                  IN  IF SubSeq(toUTCString(Date(Some(time))), 4, 29) = SubSeq(text, 4, 29)
                      THEN Date(Some(time)) ELSE InvalidDate

(***************************************************************************)
(* cookies.ts: serializeCookie and parseSetCookies.                         *)
(***************************************************************************)
\* the words of cookies.ts
HostPrefix == Txt(<<"_", "_", "H", "o", "s", "t", "-">>)
SecurePrefix == Txt(<<"_", "_", "S", "e", "c", "u", "r", "e", "-">>)
HostWord == Txt(<<"h", "o", "s", "t">>)
MaxAgeAttr == Txt(<<";", " ", "M", "a", "x", "-", "A", "g", "e", "=">>)
DomainAttr == Txt(<<";", " ", "D", "o", "m", "a", "i", "n", "=">>)
PathAttr == Txt(<<";", " ", "P", "a", "t", "h", "=">>)
ExpiresAttr == Txt(<<";", " ", "E", "x", "p", "i", "r", "e", "s", " ", "=", " ">>)
HttpOnlyAttr == Txt(<<";", " ", "H", "t", "t", "p", "O", "n", "l", "y">>)
SecureAttr == Txt(<<";", " ", "S", "e", "c", "u", "r", "e">>)
SameSiteAttr == Txt(<<";", " ", "S", "a", "m", "e", "S", "i", "t", "e", "=">>)
PartitionedAttr == Txt(<<";", " ", "P", "a", "r", "t", "i", "t", "i", "o", "n", "e", "d">>)
MaxAgeName == Txt(<<"m", "a", "x", "-", "a", "g", "e">>)
MaxAgeField == Txt(<<"m", "a", "x", "A", "g", "e">>)
ExpiresField == Txt(<<"e", "x", "p", "i", "r", "e", "s">>)
DomainField == Txt(<<"d", "o", "m", "a", "i", "n">>)
PathField == Txt(<<"p", "a", "t", "h">>)
SecureField == Txt(<<"s", "e", "c", "u", "r", "e">>)
HttpOnlyName == Txt(<<"h", "t", "t", "p", "o", "n", "l", "y">>)
HttpOnlyField == Txt(<<"h", "t", "t", "p", "O", "n", "l", "y">>)
SameSiteName == Txt(<<"s", "a", "m", "e", "s", "i", "t", "e">>)
SameSiteField == Txt(<<"s", "a", "m", "e", "S", "i", "t", "e">>)
PartitionedField == Txt(<<"p", "a", "r", "t", "i", "t", "i", "o", "n", "e", "d">>)
ProtoName == Txt(<<"_", "_", "p", "r", "o", "t", "o", "_", "_">>)
ValueField == Txt(<<"v", "a", "l", "u", "e">>)

MaxAgeLimit == 34560000

NoAttributes ==
    [expires |-> None, path |-> None, domain |-> None, secure |-> None, sameSite |-> None,
     maxAge |-> None, httpOnly |-> None, partitioned |-> None, prefix |-> None]

\* the truth of an optional text and of an optional boolean
TruthyText(o) == o # None /\ o # Some(<<>>)
TruthyBool(o) == o = Some(TRUE)

MaxAgeError ==
    Throw("Error", Txt(<<"C", "o", "o", "k", "i", "e", "s", " ", "M", "a", "x", "-", "A",
                         "g", "e", " ", "S", "H", "O", "U", "L", "D", " ", "N", "O", "T",
                         " ", "b", "e", " ", "g", "r", "e", "a", "t", "e", "r", " ", "t",
                         "h", "a", "n", " ", "4", "0", "0", " ", "d", "a", "y", "s", " ",
                         "(", "3", "4", "5", "6", "0", "0", "0", "0", " ", "s", "e", "c",
                         "o", "n", "d", "s", ")", " ", "i", "n", " ", "d", "u", "r", "a",
                         "t", "i", "o", "n", ".">>))

ExpiresError ==
    Throw("Error", Txt(<<"C", "o", "o", "k", "i", "e", "s", " ", "E", "x", "p", "i", "r",
                         "e", "s", " ", "S", "H", "O", "U", "L", "D", " ", "N", "O", "T",
                         " ", "b", "e", " ", "g", "r", "e", "a", "t", "e", "r", " ", "t",
                         "h", "a", "n", " ", "4", "0", "0", " ", "d", "a", "y", "s", " ",
                         "(", "3", "4", "5", "6", "0", "0", "0", "0", " ", "s", "e", "c",
                         "o", "n", "d", "s", ")", " ", "i", "n", " ", "t", "h", "e", " ",
                         "f", "u", "t", "u", "r", "e", ".">>))

PartitionedError ==
    Throw("Error", Txt(<<"P", "a", "r", "t", "i", "t", "i", "o", "n", "e", "d", " ", "C",
                         "o", "o", "k", "i", "e", " ", "m", "u", "s", "t", " ", "h", "a",
                         "v", "e", " ", "S", "e", "c", "u", "r", "e", " ", "a", "t", "t",
                         "r", "i", "b", "u", "t", "e", "s">>))

\* the comparison >= in place of > in ExpiresTooFar
ExpiresTooFar_Inclusive(date, clock) ==
    /\ date.time # None
    /\ LET ds  == Get(date.time).s - (clock \div 1000)
           dms == Get(date.time).ms - (clock % 1000)
       IN  ds > MaxAgeLimit \/ (ds = MaxAgeLimit /\ dms >= 0)

\* expires.getTime() - Date.now() > 34560000_000, the clock in milliseconds
ExpiresTooFar(date, clock) ==
    /\ date.time # None
    /\ LET ds  == Get(date.time).s - (clock \div 1000)
           dms == Get(date.time).ms - (clock % 1000)
       IN  ds > MaxAgeLimit \/ (ds = MaxAgeLimit /\ dms > 0)

\* opt.secure after the prefix rules (lines 116-124), a prefix rule that is not applied
\* to "__Secure-" names, and the rule
SecureAfterPrefix_HostOnly(name, given) ==
    IF StartsWith(name, HostPrefix) /\ ~TruthyBool(given.secure) THEN Some(TRUE)
    ELSE given.secure

SecureAfterPrefix(name, given) ==
    IF StartsWith(name, SecurePrefix) /\ ~TruthyBool(given.secure) THEN Some(TRUE)
    ELSE IF StartsWith(name, HostPrefix) /\ ~TruthyBool(given.secure) THEN Some(TRUE)
    ELSE given.secure

\* opt.path after the "__Host-" rule (lines 126-128)
PathAfterPrefix(name, given) ==
    IF StartsWith(name, HostPrefix) /\ given.path # Some(<<47>>) THEN Some(<<47>>)
    ELSE given.path

\* opt.domain after the "__Host-" rule (lines 130-132), a rule that keeps the domain,
\* and the rule
DomainAfterPrefix_Kept(name, given) == given.domain

DomainAfterPrefix(name, given) ==
    IF StartsWith(name, HostPrefix) /\ TruthyText(given.domain) THEN None
    ELSE given.domain

\* opt.maxAge > 34560000 for the fraction age (line 136), the comparison >=, and the
\* comparison of the code
MaxAgeTooLarge_Inclusive(age) == age.num >= MaxAgeLimit * age.den

MaxAgeTooLarge(age) == age.num > MaxAgeLimit * age.den

\* The attributes that serializeCookie appends to name=value (lines 116-181), given the
\* attributes of the caller: the text, or the error.
serializeAttributes(name, attributes, clock) ==
    LET given   == IF attributes = None THEN NoAttributes ELSE Get(attributes)
        secure  == SecureAfterPrefix(name, given)
        path    == PathAfterPrefix(name, given)
        domain  == DomainAfterPrefix(name, given)
        hasAge  == /\ given.maxAge # None
                   /\ Get(given.maxAge).type = "number"
                   /\ Get(given.maxAge).num >= 0
        age     == Get(given.maxAge)
    IN  IF hasAge /\ MaxAgeTooLarge(age) THEN MaxAgeError
        ELSE IF given.expires # None /\ ExpiresTooFar(Get(given.expires), clock)
        THEN ExpiresError
        ELSE IF TruthyBool(given.partitioned) /\ ~TruthyBool(secure) THEN PartitionedError
        ELSE Ok(   (IF hasAge
                    THEN MaxAgeAttr \o ToDecimal(age.num \div age.den) \o <<32>>
                    ELSE <<>>)
                \o (IF TruthyText(domain) /\ given.prefix # Some(HostWord)
                    THEN DomainAttr \o Get(domain) ELSE <<>>)
                \o (IF TruthyText(path) THEN PathAttr \o Get(path) ELSE <<>>)
                \o (IF given.expires # None
                    THEN ExpiresAttr \o toUTCString(Get(given.expires)) ELSE <<>>)
                \o (IF TruthyBool(given.httpOnly) THEN HttpOnlyAttr ELSE <<>>)
                \o (IF TruthyBool(secure) THEN SecureAttr ELSE <<>>)
                \o (IF TruthyText(given.sameSite)
                    THEN SameSiteAttr \o ToUpperCase(SubSeq(Get(given.sameSite), 1, 1))
                             \o Tail(Get(given.sameSite))
                    ELSE <<>>)
                \o (IF TruthyBool(given.partitioned) THEN PartitionedAttr ELSE <<>>))

\* serializeCookie({name, value, attributes, signed}): [ret, calls, stored], stored the
\* value before percent-encoding (_value, line 114)
serializeCookie(input, clock) ==
    The({ LET stored  == IF input.signed = None THEN input.value
                         ELSE input.value \o Dot
                                  \o base64_encode(signed.ret.value,
                                                   [urlSafe |-> Some(TRUE),
                                                    padding |-> Some(FALSE)])
              encoded == encodeURIComponent(stored)
              rest    == serializeAttributes(input.name, input.attributes, clock)
          IN  [ret    |-> IF encoded.kind = "throw" THEN encoded
                          ELSE IF rest.kind = "throw" THEN rest
                          ELSE Ok(Str(input.name \o Equals \o encoded.value \o rest.value)),
               calls  |-> signed.calls,
               stored |-> stored] :
          signed \in {IF input.signed = None THEN [ret |-> Ok(Undefined), calls |-> <<>>]
                      ELSE hmac_sign(Str(Get(input.signed)), Str(input.value), "SHA-256")} })

\* An attribute of a Set-Cookie entry put into the object of the entry (lines 51-88).
parseSetCookiesAttribute(attrObj, attribute) ==
    LET parts      == Split(attribute, Equals)
        attrName   == parts[1]
        attrValue  == Join(Tail(parts), Equals)
        normalized == ToLowerCase(Trim(attrName))
        trimmed    == IF attrValue = <<>> THEN Undefined ELSE Str(Trim(attrValue))
    IN  CASE normalized = MaxAgeName -> MapSet(attrObj, MaxAgeField, parseInt(attrValue))
          [] normalized = ExpiresField ->
                 MapSet(attrObj, ExpiresField,
                        IF attrValue = <<>> THEN Undefined ELSE newDate(Trim(attrValue)))
          [] normalized = DomainField -> MapSet(attrObj, DomainField, trimmed)
          [] normalized = PathField -> MapSet(attrObj, PathField, trimmed)
          [] normalized = SecureField -> MapSet(attrObj, SecureField, Bool(TRUE))
          [] normalized = HttpOnlyName -> MapSet(attrObj, HttpOnlyField, Bool(TRUE))
          [] normalized = SameSiteName ->
                 MapSet(attrObj, SameSiteField,
                        IF attrValue = <<>> THEN Undefined
                        ELSE Str(ToLowerCase(Trim(attrValue))))
          [] normalized = PartitionedField -> MapSet(attrObj, PartitionedField, Bool(TRUE))
          [] OTHER -> IF attrName = ProtoName THEN attrObj
                      ELSE MapSet(attrObj, attrName, Str(attrValue))

RECURSIVE parseSetCookiesAttributes(_, _, _)
parseSetCookiesAttributes(attrObj, attributes, i) ==
    IF i > Len(attributes) THEN attrObj
    ELSE parseSetCookiesAttributes(parseSetCookiesAttribute(attrObj, attributes[i]),
                                   attributes, i + 1)

\* One entry of the Set-Cookie text put into the map (lines 38-91).
parseSetCookiesEntry(cookies, cookieString) ==
    LET split     == Split(cookieString, Semicolon)
        parts     == [i \in 1..Len(split) |-> Trim(split[i])]
        nameValue == Split(parts[1], Equals)
        name      == nameValue[1]
        value     == Join(Tail(nameValue), Equals)
    IN  IF name = <<>> THEN cookies
        ELSE MapSet(cookies, name,
                    parseSetCookiesAttributes(MapSet(EmptyMap, ValueField, Str(value)),
                                              Tail(parts), 1))

RECURSIVE parseSetCookiesLoop(_, _, _)
parseSetCookiesLoop(cookies, cookieArray, i) ==
    IF i > Len(cookieArray) THEN cookies
    ELSE parseSetCookiesLoop(parseSetCookiesEntry(cookies, cookieArray[i]), cookieArray,
                             i + 1)

\* parseSetCookies(setCookieString): [ret, calls], the value a Map from names to objects
\* (maps from field names to values), typed as line 34 types it
parseSetCookies(setCookieString) ==
    [ret   |-> Ok([type |-> "Map<string, CookieAttributesWithValue>",
                   val |-> parseSetCookiesLoop(EmptyMap, Split(setCookieString, <<44, 32>>),
                                             1)]),
     calls |-> <<>>]

(***************************************************************************)
(* The calls of a run.  A run makes a short chain of calls: an operation   *)
(* whose input is an earlier result is enabled once that result is held.   *)
(***************************************************************************)
Init ==
    /\ op = "start"
    /\ arg = [none |-> TRUE]
    /\ ret = Ok([type |-> "undefined"])
    /\ calls = <<>>
    /\ now = 0
    /\ held = [kind |-> "nothing"]

\* the byte values and the data the codecs are given
ByteVals == {65, 251, 255}
ByteSeqs == SeqsUpTo(ByteVals, MaxBytes)
CodecData ==
    {[type |-> "bytes", val |-> b] : b \in ByteSeqs}
        \cup {[type |-> "string", val |-> t] : t \in {Txt(<<"H", "i", "!">>), <<233, 8364>>}}
OptBool == {None, Some(TRUE), Some(FALSE)}

\* the text with the character c put after its first p characters
InsertAt(text, p, c) == SubSeq(text, 1, p) \o <<c>> \o SubSeq(text, p + 1, Len(text))

\* texts base64.decode is given apart from those base64.encode returned: encodings in
\* the two alphabets, and these with a character put in at every position
Base64Encodings ==
    {Txt(<<"S", "G", "V", "s", "b", "G", "8", "s">>), Txt(<<"Q", "Q", "=", "=">>), Txt(<<"-", "_", "8">>), <<>>}
Base64PutIn == {Ord("#"), Ord(" "), Ord("+"), Ord("-"), 233}
Base64Texts ==
    Base64Encodings
        \cup UNION {{InsertAt(t, p, c) : p \in 0..Len(t), c \in Base64PutIn} :
                        t \in Base64Encodings}

\* the same for base32.decode and base32hex.decode
Base32Encodings ==
    {Txt(<<"M", "F", "R", "G", "G", "=", "=", "=">>), Txt(<<"C", "5", "H", "6", "6", "=", "=", "=">>), Txt(<<"M", "E">>), <<>>}
Base32PutIn == {Ord("#"), Ord("a"), Ord("1"), Ord("Z")}
Base32Texts ==
    Base32Encodings
        \cup UNION {{InsertAt(t, p, c) : p \in 0..Len(t), c \in Base32PutIn} :
                        t \in Base32Encodings}

\* base64.encode(data, {urlSafe, padding})
Base64EncodeCall ==
    /\ op = "start"
    /\ \E data \in CodecData, urlSafe \in OptBool, padding \in OptBool :
           LET options == [urlSafe |-> urlSafe, padding |-> padding]
               text    == base64_encode(data, options)
           IN  /\ op' = "base64.encode"
               /\ arg' = [data |-> data, options |-> options]
               /\ ret' = Ok([type |-> "string", val |-> text])
               /\ held' = [kind |-> "encoded", codec |-> "base64",
                           bytes |-> BytesOf(data), text |-> text]
    /\ UNCHANGED <<calls, now>>

\* base64.decode of the text base64.encode returned, or of a text
Base64DecodeCall ==
    /\ op \in {"start", "base64.encode"}
    /\ \E data \in (IF op = "start" THEN Base64Texts ELSE {held.text}) :
           /\ op' = "base64.decode"
           /\ arg' = [data |-> data]
           /\ ret' = base64_decode(data)
    /\ UNCHANGED <<calls, now, held>>

\* base32.encode(data, {padding}) and base32hex.encode(data, {padding})
Base32EncodeCall ==
    /\ op = "start"
    /\ \E hex \in BOOLEAN, data \in CodecData, padding \in OptBool :
           LET options == [padding |-> padding]
               text    == base32_encode(hex, data, options)
           IN  /\ op' = IF hex THEN "base32hex.encode" ELSE "base32.encode"
               /\ arg' = [data |-> data, options |-> options]
               /\ ret' = Ok([type |-> "string", val |-> text])
               /\ held' = [kind |-> "encoded", codec |-> IF hex THEN "base32hex" ELSE "base32",
                           bytes |-> BytesOf(data), text |-> text]
    /\ UNCHANGED <<calls, now>>

\* base32.decode / base32hex.decode of the text the same codec's encode returned, or
\* of a text
Base32DecodeCall ==
    /\ op \in {"start", "base32.encode", "base32hex.encode"}
    /\ \E hex \in (IF op = "start" THEN BOOLEAN ELSE {op = "base32hex.encode"}),
          data \in (IF op = "start" THEN Base32Texts ELSE {held.text}) :
           /\ op' = IF hex THEN "base32hex.decode" ELSE "base32.decode"
           /\ arg' = [data |-> data]
           /\ ret' = base32_decode(hex, data)
    /\ UNCHANGED <<calls, now, held>>

NextCodec ==
    \/ Base64EncodeCall
    \/ Base64DecodeCall
    \/ Base32EncodeCall
    \/ Base32DecodeCall

SpecCodec == Init /\ [][NextCodec]_vars

(***************************************************************************)
(* The calls of the OTP engine.                                            *)
(***************************************************************************)
\* the engines: createOTP() with its defaults, and an engine of another configuration
DefaultEngine == createOTP("SHA-1", 6, 30)
Engines == {DefaultEngine, createOTP("SHA-256", 8, 3)}
\* the engines generateHOTP is called on: also one whose default digits are invalid
HotpEngines == Engines \cup {createOTP("SHA-1", 9, 30)}
Secret == Txt(<<"1", "2", "3", "4", "5", "6", "7", "8", "9", "0">>)
WrongOtp == Txt(<<"0", "0", "0", "0", "0", "0">>)
StartInstants == {0, 6000, 27000}
ClockStep == 3000

\* the state before the first call, at some instant of the clock
InitOtp ==
    /\ op = "start"
    /\ arg = [none |-> TRUE]
    /\ ret = Ok([type |-> "undefined"])
    /\ calls = <<>>
    /\ now \in StartInstants
    /\ held = [kind |-> "nothing"]

\* the clock advances between generateTOTP and verifyTOTP
Tick ==
    /\ op = "generateTOTP"
    /\ now + ClockStep <= held.at + MaxTicks * ClockStep
    /\ now' = now + ClockStep
    /\ UNCHANGED <<op, arg, ret, calls, held>>

\* generateHOTP(secret, {counter, digits})
GenerateHOTPCall ==
    /\ op = "start"
    /\ \E engine \in HotpEngines, counter \in {-1, 0, 1, 5, 2147483647},
          digits \in {None, Some(0), Some(1), Some(6), Some(8), Some(9)} :
           \E out \in {generateHOTP(engine, Secret, counter, digits)} :
               /\ op' = "generateHOTP"
               /\ arg' = [engine |-> engine, secret |-> Secret, counter |-> counter,
                          digits |-> digits]
               /\ ret' = out.ret
               /\ calls' = out.calls
    /\ UNCHANGED <<now, held>>

\* generateTOTP(secret, {milliseconds, digits}); the caller keeps the OTP
GenerateTOTPCall ==
    /\ op = "start"
    /\ \E engine \in Engines, milliseconds \in {None, Some(3000), Some(30000)},
          digits \in {None, Some(6)} :
           \E out \in {generateTOTP(engine, now, Secret, milliseconds, digits)} :
               /\ op' = "generateTOTP"
               /\ arg' = [engine |-> engine, secret |-> Secret,
                          milliseconds |-> milliseconds, digits |-> digits]
               /\ ret' = out.ret
               /\ calls' = out.calls
               /\ held' = [kind |-> "otp", engine |-> engine, secret |-> Secret,
                           otp |-> out.ret.value.val, at |-> now,
                           milliseconds |-> IF milliseconds = None THEN 3000
                                            ELSE Get(milliseconds),
                           digits |-> IF digits = None THEN engine.digits ELSE Get(digits)]
    /\ UNCHANGED now

\* verifyTOTP(otp, {window, digits, secret, seconds}) on the engine that generated the
\* OTP the caller keeps, for that OTP or a wrong one
VerifyTOTPCall ==
    /\ op = "generateTOTP"
    /\ \E otp \in {held.otp, WrongOtp},
          window \in {None, Some(-1), Some(0), Some(1), Some(2)},
          digits \in {None, Some(6), Some(9)},
          seconds \in {None, Some(3)} :
           \E out \in {verifyTOTP(held.engine, now, otp,
                                   [window |-> window, digits |-> digits,
                                    secret |-> held.secret, seconds |-> seconds])} :
               /\ op' = "verifyTOTP"
               /\ arg' = [otp |-> otp,
                          options |-> [window |-> window, digits |-> digits,
                                       secret |-> held.secret, seconds |-> seconds]]
               /\ ret' = out.ret
               /\ calls' = out.calls
    /\ UNCHANGED <<now, held>>

NextOtp ==
    \/ Tick
    \/ GenerateHOTPCall
    \/ GenerateTOTPCall
    \/ VerifyTOTPCall

SpecOtp == InitOtp /\ [][NextOtp]_vars

(***************************************************************************)
(* Properties of the codecs.                                               *)
(***************************************************************************)
\* C3: base64.decode of what base64.encode returned for the bytes B yields B, for
\* both alphabets and with or without padding.
C3_Base64RoundTrip ==
    (op = "base64.decode" /\ held.kind = "encoded")
        => ret.kind = "ok" /\ ret.value.val = held.bytes

\* C4: base32.decode / base32hex.decode of what the same codec's encode returned for
\* the bytes B yields exactly B, for both alphabets and with or without padding.
C4_Base32RoundTrip ==
    (op \in {"base32.decode", "base32hex.decode"} /\ held.kind = "encoded")
        => ret = Ok([type |-> "bytes", val |-> held.bytes])

\* a padded 4-byte input and an unpadded 3-byte input have been decoded back
C4_Witness ==
    /\ op \in {"base32.decode", "base32hex.decode"}
    /\ held.kind = "encoded"
    /\ ret.kind = "ok"
    /\ ret.value.val = held.bytes
    /\ \/ Len(held.bytes) = 4 /\ held.text[8] = PadChar
       \/ Len(held.bytes) = 3 /\ Len(held.text) = 5

(***************************************************************************)
(* Properties of the OTP engine.                                           *)
(***************************************************************************)
\* C5: an OTP that generateTOTP(secret, {milliseconds: 3000, digits: 6}) returned is
\* accepted by verifyTOTP(otp, {secret}), with the default step and window, at the
\* same instant, on the engine createOTP() builds.
C5_GenerateThenVerify ==
    ( /\ op = "verifyTOTP"
      /\ held.engine = DefaultEngine
      /\ held.milliseconds = 3000 /\ held.digits = 6
      /\ now = held.at
      /\ arg.otp = held.otp
      /\ arg.options = [window |-> None, digits |-> None, secret |-> held.secret,
                        seconds |-> None] )
        => ret = Ok(Bool(TRUE))

\* the window, digits and step in milliseconds a verifyTOTP call works with
EffWindow == IF arg.options.window = None THEN 1 ELSE Get(arg.options.window)
EffDigits == IF arg.options.digits = None THEN held.engine.digits ELSE Get(arg.options.digits)
EffStepMs ==
    1000 * (IF arg.options.seconds = None THEN held.engine.seconds
            ELSE Get(arg.options.seconds))

InitCookie ==
    /\ op = "start"
    /\ arg = [none |-> TRUE]
    /\ ret = Ok([type |-> "undefined"])
    /\ calls = <<>>
    /\ now \in {0, 1500}
    /\ held = [kind |-> "nothing"]

\* the texts the runs are made of
KeyText ==
    Txt(<<"k", "e", "y">>)
OtherKeyText ==
    Txt(<<"o", "t", "h", "e", "r">>)
NameT ==
    Txt(<<"t">>)
NameHost ==
    Txt(<<"_", "_", "H", "o", "s", "t", "-", "s">>)
NameSecure ==
    Txt(<<"_", "_", "S", "e", "c", "u", "r", "e", "-", "s">>)
Value123 ==
    Txt(<<"1", "2", "3">>)
ValueDotted ==
    Txt(<<"a", ".", "b">>)
ValueSpaced ==
    Txt(<<"a", " ", "b">>)
DomainText ==
    Txt(<<"x", ".", "o", "r", "g">>)
PathText ==
    Txt(<<"/", "a">>)
StrictText ==
    Txt(<<"s", "t", "r", "i", "c", "t">>)
TextBadSignature ==
    Txt(<<"1", "2", "3", ".", "z", "z">>)
TextNoValue ==
    Txt(<<".", "z", "z">>)
TextNoSignature ==
    Txt(<<"1", "2", "3", ".">>)
TextEmptySecond ==
    Txt(<<"a", ".", ".", "b">>)
HeaderTwo ==
    Txt(<<"t", "=", "1", "2", "3", ";", " ", "a", "=", "4", "5", "6">>)
HeaderT ==
    Txt(<<"t", "=">>)
HeaderBadThenT ==
    Txt(<<"t", "=", "9", ".", "z", "z", ";", " ", "t", "=">>)
HeaderThenBad ==
    Txt(<<";", " ", "t", "=", "9", ".", "z", "z">>)
HeaderBadSignature ==
    Txt(<<"t", "=", "1", "2", "3", ".", "z", "z", ";", " ", "a", "=", "1">>)
HeaderLonePercent ==
    Txt(<<"a", "=", "%">>)
HeaderMixed ==
    Txt(<<" ", "t", "=", "\"", "1", " ", "2", "\"", ";", " ", "b", "a", "d", " ", "n", "a",
          "m", "e", "=", "1", ";", " ", "x", ";", " ", "q", "=", "a", "\\", "b", ";", " ",
          "=", "3", ";", " ", "a", "=", "%", "4", "1">>)
HeaderMalformedLater ==
    Txt(<<"t", "=", "1", "2", "3", ";", " ", "a", "=", "4", "5", "6", ";", " ", "t", "=",
          "a", "\\", "b">>)
NameA ==
    Txt(<<"a">>)
SetCookieTwo ==
    Txt(<<"t", "e", "s", "t", "=", "1", "2", "3", ";", " ", "P", "a", "t", "h", "=", "/",
          ";", " ", "S", "e", "c", "u", "r", "e", ",", " ", "a", "n", "o", "t", "h", "e",
          "r", "=", "4", "5", "6", ";", " ", "H", "t", "t", "p", "O", "n", "l", "y">>)
SetCookieExtensions ==
    Txt(<<"a", "=", "1", "=", "2", ";", " ", "M", "a", "x", "-", "A", "g", "e", "=", "6",
          "0", " ", ";", " ", "S", "a", "m", "e", "S", "i", "t", "e", "=", "L", "A", "X",
          ";", " ", "f", "o", "o", " ", "=", "b", "a", "r", ";", " ", "D", "o", "m", "a",
          "i", "n", "=", ";", " ", ";", "_", "_", "p", "r", "o", "t", "o", "_", "_", "=",
          "x", ";", " ", "v", "a", "l", "u", "e", "=", "9", ",", " ", "=", "z", ",", " ",
          "b">>)
SetCookieProto ==
    Txt(<<"a", "=", "1", ";", " ", "_", "_", "p", "r", "o", "t", "o", "_", "_", "=", "x">>)
SetCookieRepeated ==
    Txt(<<"a", "=", "1", ";", " ", "P", "a", "t", "h", "=", "/", "x", ";", " ", "f", "o",
          "o", "=", "1", ";", " ", "P", "A", "T", "H", "=", "/", "y", ";", " ", "f", "o",
          "o", "=", "2", ",", " ", "=", "z", ";", " ", "S", "e", "c", "u", "r", "e", ",",
          " ", "a", "=", "2", ";", " ", "f", "o", "o">>)
SetCookieCases ==
    Txt(<<"s", "=", "1", ";", " ", "m", "a", "x", "-", "a", "g", "e", "=", "x", ";", " ",
          "E", "X", "P", "I", "R", "E", "S", "=", "T", "h", "u", ",", " ", "2", "9", " ",
          "F", "e", "b", " ", "2", "0", "2", "4", " ", "1", "2", ":", "3", "4", ":", "5",
          "6", " ", "G", "M", "T", ";", " ", "p", "a", "r", "t", "i", "t", "i", "o", "n",
          "e", "d", ";", " ", "p", "a", "t", "h", "=", "/", "p">>)

Keys == {KeyText, OtherKeyText}
OptKey == {None} \cup {Some(k) : k \in Keys}

CookieNames == {NameT, NameHost, NameSecure}

\* plain values: digits, a value with a ".", one that needs escapes, the empty one, one
\* outside ASCII and a lone surrogate
PlainValues == {Value123, ValueDotted, ValueSpaced, <<>>, <<233>>, <<55296>>}

\* the values serializeCookie is given with a signing key
SignedValues == {Value123, ValueDotted, ValueSpaced}

FourHundredDays == [s |-> MaxAgeLimit, ms |-> 0]

AttributeSets ==
    {[NoAttributes EXCEPT !.secure = s, !.partitioned = p, !.domain = d, !.path = pa] :
        s \in OptBool, p \in {None, Some(TRUE)}, d \in {None, Some(DomainText)},
        pa \in {None, Some(PathText)}}
    \cup {[NoAttributes EXCEPT !.maxAge = Some(m)] :
              m \in {Num(0, 1), Num(7, 2), Num(MaxAgeLimit, 1), Num(MaxAgeLimit + 1, 1),
                     Num(2 * MaxAgeLimit + 1, 2), Num(-1, 1), NaN}}
    \cup {[NoAttributes EXCEPT !.expires = Some(e)] :
              e \in {Date(Some(FourHundredDays)), Date(Some([FourHundredDays EXCEPT !.ms = 1])),
                     Date(Some([s |-> MaxAgeLimit + 1, ms |-> 500])),
                     Date(Some([s |-> MaxAgeLimit + 2, ms |-> 0])),
                     Date(Some([s |-> -1, ms |-> 0])), InvalidDate}}
    \cup {[NoAttributes EXCEPT !.sameSite = Some(StrictText), !.httpOnly = Some(TRUE)],
          [NoAttributes EXCEPT !.domain = Some(DomainText), !.prefix = Some(HostWord)],
          [NoAttributes EXCEPT !.sameSite = Some(<<>>), !.httpOnly = Some(FALSE),
                               !.path = Some(<<47>>)]}

SerializeInputs ==
    {[name |-> n, value |-> v, attributes |-> None, signed |-> None] :
        n \in CookieNames, v \in PlainValues}
    \cup {[name |-> n, value |-> v, attributes |-> None, signed |-> Some(k)] :
              n \in CookieNames, v \in SignedValues, k \in Keys}
    \cup {[name |-> n, value |-> Value123, attributes |-> Some(a), signed |-> None] :
              n \in CookieNames, a \in AttributeSets}

\* serializeCookie(input)
SerializeCookieCall ==
    /\ op = "start"
    /\ \E input \in SerializeInputs :
           \E out \in {serializeCookie(input, now)} :
               /\ op' = "serializeCookie"
               /\ arg' = input
               /\ ret' = out.ret
               /\ calls' = out.calls
               /\ held' = [kind |-> "cookie", name |-> input.name, value |-> input.value,
                           key |-> input.signed, stored |-> out.stored]
    /\ UNCHANGED now

\* a value whose second segment has the bytes of the MAC of its first segment under the
\* key "key"
VerifiableValue ==
    Value123 \o Dot \o SubtleSign("SHA-256", TextEncode(KeyText), TextEncode(Value123))

\* texts verifySignedCookie is given apart from the stored values of serializeCookie
CookieTexts ==
    {VerifiableValue, VerifiableValue \o Dot, TextBadSignature, Value123, TextNoValue,
     TextNoSignature, TextEmptySecond,
     <<46>>, <<>>}

\* the stored value with its value segment altered
Altered(stored) == <<Ord("x")>> \o stored

\* verifySignedCookie({cookie, key}), of the stored value a signing serializeCookie
\* built, of that value altered, or of a text
VerifySignedCookieCall ==
    /\ \/ op = "serializeCookie" /\ held.key # None
       \/ op = "start"
    /\ \E cookie \in (IF op = "start" THEN CookieTexts
                      ELSE {held.stored, Altered(held.stored)}),
          key \in Keys :
           \E out \in {verifySignedCookie(cookie, key)} :
               /\ op' = "verifySignedCookie"
               /\ arg' = [cookie |-> cookie, key |-> key]
               /\ ret' = out.ret
               /\ calls' = out.calls
    /\ UNCHANGED <<now, held>>

\* Cookie headers the readers are given apart from the cookies serializeCookie made
CookieHeaders ==
    {HeaderTwo,
     HeaderT \o VerifiableValue,
     HeaderT \o VerifiableValue \o <<46, 92>>,
     HeaderBadThenT \o VerifiableValue,
     HeaderT \o VerifiableValue \o HeaderThenBad,
     HeaderBadSignature,
     HeaderLonePercent,
     HeaderMixed,
     HeaderMalformedLater,
     <<>>}

TargetNames == {<<>>, NameT, NameA}

\* the header a client sends back for the cookie serializeCookie returned: its name=value
WireHeader == Split(ret.value.val, Semicolon)[1]

\* the header and the target name and key of a reader's call
ReaderInputs ==
    IF op = "start"
    THEN {[cookie |-> h, name |-> n, signed |-> k] :
             h \in CookieHeaders, n \in TargetNames, k \in OptKey}
    ELSE {[cookie |-> WireHeader, name |-> held.name, signed |-> k] : k \in OptKey}

\* parseCookies(cookie, name, signed)
ParseCookiesCall ==
    /\ op = "start" \/ (op = "serializeCookie" /\ ret.kind = "ok")
    /\ \E input \in ReaderInputs :
           \E out \in {parseCookies(input.cookie, input.name, input.signed)} :
               /\ op' = "parseCookies"
               /\ arg' = input
               /\ ret' = out.ret
               /\ calls' = out.calls
    /\ UNCHANGED <<now, held>>

\* getCookie(cookie, name, signed)
GetCookieCall ==
    /\ op = "start" \/ (op = "serializeCookie" /\ ret.kind = "ok")
    /\ \E input \in ReaderInputs :
           \E out \in {getCookie(input.cookie, input.name, input.signed)} :
               /\ op' = "getCookie"
               /\ arg' = input
               /\ ret' = out.ret
               /\ calls' = out.calls
    /\ UNCHANGED <<now, held>>

SetCookieTexts ==
    {SetCookieTwo,
     SetCookieExtensions,
     SetCookieCases,
     SetCookieProto,
     SetCookieRepeated,
     <<>>}

\* parseSetCookies(setCookieString), of a text or of the cookie serializeCookie returned
ParseSetCookiesCall ==
    /\ op = "start" \/ (op = "serializeCookie" /\ ret.kind = "ok")
    /\ \E text \in (IF op = "start" THEN SetCookieTexts ELSE {ret.value.val}) :
           \E out \in {parseSetCookies(text)} :
               /\ op' = "parseSetCookies"
               /\ arg' = [setCookieString |-> text]
               /\ ret' = out.ret
               /\ calls' = out.calls
    /\ UNCHANGED <<now, held>>

NextCookie ==
    \/ SerializeCookieCall
    \/ VerifySignedCookieCall
    \/ ParseCookiesCall
    \/ GetCookieCall
    \/ ParseSetCookiesCall

SpecCookie == InitCookie /\ [][NextCookie]_vars

(***************************************************************************)
(* Properties of the cookies module.                                        *)
(***************************************************************************)
\* C1: verifySignedCookie of the stored value that a signing serializeCookie built, with
\* the key it signed with, returns true; with the value segment altered or with another
\* key it returns false.
C1_SigningRoundTrip ==
    (op = "verifySignedCookie" /\ held.kind = "cookie") =>
        IF arg.cookie = held.stored /\ Some(arg.key) = held.key
        THEN ret = Ok(Bool(TRUE))
        ELSE ret = Ok(Bool(FALSE))

\* the signature text of the stored value: what follows the plain value and the "."
StoredSignature == SubSeq(held.stored, Len(held.value) + 2, Len(held.stored))

\* C2: the split that verifySignedCookie and parseCookies apply to the stored value
\* v + "." + s hands the provider exactly v as the data and exactly s as the signature,
\* for every plain value v, those with a "." included.
C2_SplitInvariant ==
    (/\ held.kind = "cookie"
     /\ held.key # None
     /\ \/ op = "verifySignedCookie" /\ arg.cookie = held.stored
        \/ /\ op = "parseCookies"
           /\ arg.signed # None
           /\ arg.cookie = held.name \o Equals \o held.stored)
    => /\ Len(calls) = 1
       /\ calls[1].fn = "verify"
       /\ calls[1].data = TextEncode(held.value)
       /\ calls[1].signature = Some(TextEncode(StoredSignature))

\* C7: parseCookies and parseSetCookies complete with a mapping for every text, a
\* malformed percent-escape or a signed target without a "." included.
C7_ParsingNeverRaises ==
    op \in {"parseCookies", "parseSetCookies"} => ret.kind = "ok"

\* the last call of the provider, and whether it was a verification under the key of the
\* reader's call that the provider accepted
LastCall == calls[Len(calls)]
LastVerified ==
    /\ calls # <<>>
    /\ LastCall.fn = "verify"
    /\ LastCall.key = TextEncode(Get(arg.signed))
    /\ SubtleVerify(LastCall.hash, LastCall.key, Get(LastCall.signature), LastCall.data)

\* the value of the last pair of the header of the reader's call that has the target name
LastTargetValue ==
    LET pairs == Split(Trim(arg.cookie), Semicolon)
        named == {i \in 1..Len(pairs) :
                     PairEq(pairs[i]) # 0 /\ PairName(pairs[i]) = arg.name}
    IN  PairValue(pairs[CHOOSE i \in named : \A j \in named : j <= i])

\* the text before the first "."
ValueSegment(text) == SubSeq(text, 1, IndexOfFrom(text, Dot, 1) - 1)

\* what the reader's call found under the target name
Found ==
    IF op = "getCookie" THEN ret.value.val
    ELSE IF arg.name \in DOMAIN ret.value.val THEN Some(ret.value.val[arg.name])
    ELSE None

\* C8: with a signing key and a target name, parseCookies maps the target name only when
\* the provider verified the pair, the data it verified being the value segment, and then
\* to the percent-decoded value segment, never to the text with the signature; when the
\* provider refused, the name is absent.  getCookie returns that value or nothing.
C8_SignedLookup ==
    (/\ op \in {"parseCookies", "getCookie"}
     /\ arg.signed # None
     /\ arg.name # <<>>
     /\ ret.kind = "ok")
    => IF LastVerified
       THEN /\ LastCall.data = TextEncode(ValueSegment(LastTargetValue))
            /\ Found = Some(decodeURIComponent(ValueSegment(LastTargetValue)).value)
            /\ Found # Some(LastTargetValue)
       ELSE Found = None

C8_Witness ==
    /\ op = "parseCookies"
    /\ arg = [cookie |-> HeaderBadThenT \o VerifiableValue, name |-> NameT,
              signed |-> Some(KeyText)]
    /\ Len(calls) = 2
    /\ LastVerified
    /\ ret = Ok([type |-> "Map", val |-> MapSet(EmptyMap, NameT, Value123)])

\* C9: every entry of the mapping parseCookies returns, with or without a signing key,
\* comes from a pair of the header whose name matches the token grammar and whose
\* quote-stripped value has only permitted characters.
C9_RetentionRule ==
    (op = "parseCookies" /\ ret.kind = "ok") =>
        LET pairs == Split(Trim(arg.cookie), Semicolon)
        IN  \A name \in DOMAIN ret.value.val :
                \E i \in 1..Len(pairs) :
                    /\ PairEq(pairs[i]) # 0
                    /\ PairName(pairs[i]) = name
                    /\ validCookieNameRegEx(name)
                    /\ validCookieValueRegEx(PairValue(pairs[i]))

ExpectedSignature ==
    base64Encode(SubtleSign("SHA-256", TextEncode(Get(arg.signed)), TextEncode(arg.value)),
                 base64GetAlphabet(TRUE), FALSE)

\* C11: the wire string serializeCookie returns starts with name "=" and the
\* percent-encoding of value "." base64url-no-pad(sign(key, value)) when a key is given,
\* the provider having signed the value under the key; without a key it starts with
\* name "=" percent-encoding of the value, nothing is signed and the name-value part
\* ends there.
C11_SignedFormat ==
    (op = "serializeCookie" /\ ret.kind = "ok") =>
        LET plain == IF arg.signed = None THEN arg.value
                     ELSE arg.value \o Dot \o ExpectedSignature
            head  == arg.name \o Equals \o encodeURIComponent(plain).value
        IN  /\ StartsWith(ret.value.val, head)
            /\ WireHeader = head
            /\ IF arg.signed = None THEN calls = <<>>
               ELSE /\ Len(calls) = 1
                    /\ calls[1].fn = "sign"
                    /\ calls[1].key = TextEncode(Get(arg.signed))
                    /\ calls[1].data = TextEncode(arg.value)

\* a signed value that needs percent-encoding
C11_Witness ==
    /\ op = "serializeCookie"
    /\ arg.value = ValueSpaced
    /\ arg.signed = Some(KeyText)
    /\ ret.kind = "ok"
    /\ WireHeader = arg.name \o Equals \o Txt(<<"a", "%", "2", "0", "b", ".">>)
                           \o ExpectedSignature
    /\ Len(ExpectedSignature) = 43

\* the attributes of the wire string of a successful serializeCookie: its parts after
\* the first ";", trimmed
WireAttributes ==
    LET parts == Split(ret.value.val, Semicolon)
    IN  [i \in 1..(Len(parts) - 1) |-> Trim(parts[i + 1])]
HasAttribute(text) == \E i \in 1..Len(WireAttributes) : WireAttributes[i] = text
HasAttributeNamed(word) ==
    \E i \in 1..Len(WireAttributes) :
        Trim(Split(ToLowerCase(WireAttributes[i]), Equals)[1]) = word
AttrPathRoot == Txt(<<"P", "a", "t", "h", "=", "/">>)
AttrSecure == Txt(<<"S", "e", "c", "u", "r", "e">>)
AttrPartitioned == Txt(<<"P", "a", "r", "t", "i", "t", "i", "o", "n", "e", "d">>)
Given == IF arg.attributes = None THEN NoAttributes ELSE Get(arg.attributes)

\* C12: a wire string serializeCookie returns for a name that starts with "__Host-" has
\* the attributes Path=/ and Secure and no Domain attribute, whatever domain, path and
\* secure the caller gave.
C12_HostPrefixPolicy ==
    (op = "serializeCookie" /\ StartsWith(arg.name, HostPrefix) /\ ret.kind = "ok") =>
        /\ HasAttribute(AttrPathRoot)
        /\ HasAttribute(AttrSecure)
        /\ ~HasAttributeNamed(DomainField)
        /\ \A i \in 1..Len(WireAttributes) :
               Split(WireAttributes[i], Equals)[1] = Txt(<<"P", "a", "t", "h">>)
                   => WireAttributes[i] = AttrPathRoot

\* a "__Host-" cookie given a domain, another path and secure: false
C12_Witness ==
    /\ op = "serializeCookie"
    /\ arg.name = NameHost
    /\ arg.attributes # None
    /\ Given.domain = Some(DomainText)
    /\ Given.path = Some(PathText)
    /\ Given.secure = Some(FALSE)
    /\ Given.partitioned = None
    /\ ret = Ok(Str(NameHost \o Equals \o Value123 \o PathAttr \o <<47>> \o SecureAttr))

AttrMaxAge == Txt(<<"M", "a", "x", "-", "A", "g", "e", "=">>)

\* C13: serializeCookie throws the Max-Age error, returning no wire string, whenever
\* maxAge > 34560000; for 0 <= maxAge <= 34560000 it returns a wire string with the
\* attribute Max-Age=floor(maxAge); for a negative maxAge (and for NaN) it returns a
\* wire string without a Max-Age attribute.
C13_MaxAgeBound ==
    (op = "serializeCookie" /\ Given.maxAge # None) =>
        LET age == Get(Given.maxAge)
        IN  IF age.type = "number" /\ age.num > MaxAgeLimit * age.den
            THEN ret = MaxAgeError
            ELSE IF age.type = "number" /\ age.num >= 0
            THEN /\ ret.kind = "ok"
                 /\ HasAttribute(AttrMaxAge \o ToDecimal(age.num \div age.den))
            ELSE /\ ret.kind = "ok"
                 /\ ~HasAttributeNamed(MaxAgeName)

\* maxAge exactly 34560000 is accepted
C13_Witness ==
    /\ op = "serializeCookie"
    /\ arg.name = NameT
    /\ Given.maxAge = Some(Num(MaxAgeLimit, 1))
    /\ ret = Ok(Str(Txt(<<"t", "=", "1", "2", "3", ";", " ", "M", "a", "x", "-", "A", "g", "e", "=",
               "3", "4", "5", "6", "0", "0", "0", "0", " ">>)))

\* C14: with partitioned = true serializeCookie throws exactly when secure is not true
\* after the prefix rules, that is, when the caller's secure is not true and the name
\* has neither prefix; under a "__Secure-" or "__Host-" name it never throws for
\* partitioned and the wire string has the attribute Secure.
C14_PartitionedRequiresSecure ==
    (op = "serializeCookie" /\ arg.attributes # None) =>
        LET prefixed == arg.name \in {NameHost, NameSecure}
            secure   == prefixed \/ Given.secure = Some(TRUE)
        IN  /\ Given.partitioned = Some(TRUE) =>
                   IF secure
                   THEN /\ ret.kind = "ok"
                        /\ HasAttribute(AttrPartitioned)
                        /\ HasAttribute(AttrSecure)
                   ELSE ret = PartitionedError
            /\ prefixed =>
                   /\ ret # PartitionedError
                   /\ ret.kind = "ok" => HasAttribute(AttrSecure)

\* a partitioned "__Secure-" cookie whose caller says secure: false
C14_Witness ==
    /\ op = "serializeCookie"
    /\ arg.name = NameSecure
    /\ arg.attributes # None
    /\ Given.partitioned = Some(TRUE)
    /\ Given.secure = Some(FALSE)
    /\ Given.domain = None
    /\ Given.path = None
    /\ ret = Ok(Str(NameSecure \o Equals \o Value123 \o SecureAttr \o PartitionedAttr))

\* the value of the Expires attribute of the wire string, if there is one
WireExpires ==
    {Trim(Join(Tail(Split(WireAttributes[i], Equals)), Equals)) :
        i \in {j \in 1..Len(WireAttributes) :
                   Trim(Split(ToLowerCase(WireAttributes[j]), Equals)[1]) = ExpiresField}}

\* C15: serializeCookie throws the Expires error, returning no wire string, whenever
\* expires is more than 400 days (34,560,000,000 ms) after the current instant; an
\* expires exactly 400 days ahead or earlier, past instants included, is accepted and
\* the wire string has an Expires attribute with that date.
C15_ExpiresBound ==
    (op = "serializeCookie" /\ Given.expires # None /\ Get(Given.expires).time # None) =>
        LET time    == Get(Get(Given.expires).time)
            seconds == time.s - (now \div 1000) - MaxAgeLimit
        IN  IF seconds > 0 \/ (seconds = 0 /\ time.ms > now % 1000)
            THEN ret = ExpiresError
            ELSE /\ ret.kind = "ok"
                 /\ WireExpires = {toUTCString(Get(Given.expires))}

\* an expires exactly 400 days after the instant 1500 ms
C15_Witness ==
    /\ op = "serializeCookie"
    /\ now = 1500
    /\ arg.name = NameT
    /\ Given.expires = Some(Date(Some([s |-> MaxAgeLimit + 1, ms |-> 500])))
    /\ ret.kind = "ok"
    /\ WireExpires = {Txt(<<"F", "r", "i", ",", " ", "0", "5", " ", "F", "e", "b", " ", "1",
                       "9", "7", "1", " ", "0", "0", ":", "0", "0", ":", "0", "1", " ",
                       "G", "M", "T">>)}

(***************************************************************************)
(* Decoding texts that are not encodings.                                  *)
(***************************************************************************)
\* the positions of the text whose character is neither "=" nor one of the symbols
InvalidPositions(text, symbols) ==
    {i \in 1..Len(text) : text[i] \notin symbols \cup {PadChar}}
Least(positions) == CHOOSE i \in positions : \A j \in positions : i <= j
AlphaNumerics == Range(UpperCase) \cup Range(LowerCase) \cup Range(Digits)
InvalidCharacterText == Txt(<<"I", "n", "v", "a", "l", "i", "d", " ", "c", "h", "a", "r", "a", "c", "t", "e",
        "r", ":", " ">>)
InvalidBase32CharacterText ==
    Txt(<<"I", "n", "v", "a", "l", "i", "d", " ", "B", "a", "s", "e", "3", "2", " ", "c",
        "h", "a", "r", "a", "c", "t", "e", "r", ":", " ">>)

\* C16: base64.decode of a text that has, at any position, a character that is neither
\* "=" nor a symbol of the alphabet its detection selects (the URL-safe one when the
\* text has "-" or "_") throws an error whose message names that character (the first
\* such character of the text) and returns no bytes.
C16_Base64InvalidCharacter ==
    op = "base64.decode" =>
        LET urlSafe == \E i \in 1..Len(arg.data) : arg.data[i] \in {Ord("-"), Ord("_")}
            symbols == AlphaNumerics
                           \cup (IF urlSafe THEN {Ord("-"), Ord("_")} ELSE {Ord("+"), Ord("/")})
            invalid == InvalidPositions(arg.data, symbols)
        IN  invalid # {} =>
                ret = Throw("Error", InvalidCharacterText \o <<arg.data[Least(invalid)]>>)

\* "SGVsbG8s#" fails mentioning "#"
C16_Witness ==
    /\ op = "base64.decode"
    /\ arg.data = Txt(<<"S", "G", "V", "s", "b", "G", "8", "s", "#">>)
    /\ ret = Throw("Error", InvalidCharacterText \o <<Ord("#")>>)

\* the symbols of the alphabet of base32hex.decode (hex) or base32.decode
Base32Symbols(hex) ==
    IF hex THEN Range(Digits) \cup {Ord("A") + i : i \in 0..21}
    ELSE Range(UpperCase) \cup {Ord("2") + i : i \in 0..5}

\* C17: base32.decode / base32hex.decode of a text that has, at any position, after a
\* pad character included, a character that is neither "=" nor a symbol of the
\* codec's alphabet throws an error whose message names such a character.
C17_Base32InvalidCharacter ==
    op \in {"base32.decode", "base32hex.decode"} =>
        LET invalid == InvalidPositions(arg.data, Base32Symbols(op = "base32hex.decode"))
        IN  invalid # {} =>
                \E i \in invalid :
                    ret = Throw("Error", InvalidBase32CharacterText \o <<arg.data[i]>>)

(***************************************************************************)
(* generateHOTP.                                                           *)
(***************************************************************************)
\* the digits of the call: the argument, else the default of the engine
HotpDigits == IF arg.digits = None THEN arg.engine.digits ELSE Get(arg.digits)

\* C18: generateHOTP with digits (the argument, else the engine's default) below 1 or
\* above 8 throws "Digits must be between 1 and 8" and makes no call of the keyed-hash
\* provider; with digits in 1..8 it does not throw.
C18_DigitValidation ==
    op = "generateHOTP" =>
        IF HotpDigits < 1 \/ HotpDigits > 8
        THEN ret = DigitsError /\ calls = <<>>
        ELSE ret.kind = "ok" /\ Len(calls) = 1

\* the engine's default of 9 digits is rejected when no digits are given
C18_Witness ==
    /\ op = "generateHOTP"
    /\ arg.digits = None
    /\ arg.engine.digits = 9
    /\ ret = DigitsError
    /\ calls = <<>>

\* the MAC the provider returned to the generateHOTP of the state
HotpMac == SubtleSign(arg.engine.hash, TextEncode(arg.secret), calls[1].data)

\* C19: generateHOTP signs the counter as 8 big-endian bytes; with the MAC the provider
\* returns (20 bytes or more) it takes offset = last byte & 0x0F, so that the 4 bytes at
\* the offset are inside the MAC, forms their big-endian value with the top bit cleared
\* (0 <= truncated < 2^31) and returns truncated mod 10^digits in decimal, padded on the
\* left with "0" to exactly digits characters.
C19_DynamicTruncation ==
    (op = "generateHOTP" /\ ret.kind = "ok") =>
        LET data      == calls[1].data
            offset    == HotpMac[Len(HotpMac)] % 16
            top       == HotpMac[offset + 1] % 128
            truncated == top * 16777216 + HotpMac[offset + 2] * 65536
                             + HotpMac[offset + 3] * 256 + HotpMac[offset + 4]
            text      == ret.value.val
        IN  /\ Len(calls) = 1 /\ calls[1].fn = "sign"
            /\ calls[1].key = TextEncode(arg.secret)
            /\ Len(data) = 8
            /\ arg.counter >= 0 =>
                   /\ \A n \in 1..4 : data[n] = 0
                   /\ data[5] * 16777216 + data[6] * 65536 + data[7] * 256 + data[8]
                          = arg.counter
            /\ Len(HotpMac) >= 20
            /\ offset + 4 <= Len(HotpMac)
            /\ top <= 127 /\ truncated >= 0
            /\ Len(text) = HotpDigits
            /\ \A i \in 1..Len(text) : IsDigit(text[i])
            /\ DigitsValue(text, 1, 0) = truncated % Pow10(HotpDigits)

\* an OTP of 8 digits that needed padding, taken at an offset other than 0
C19_Witness ==
    /\ op = "generateHOTP"
    /\ ret.kind = "ok"
    /\ HotpDigits = 8
    /\ Len(ret.value.val) = 8
    /\ ret.value.val[1] = Ord("0")
    /\ HotpMac[Len(HotpMac)] % 16 > 0

(***************************************************************************)
(* The length and the padding of an encoding.                              *)
(***************************************************************************)
\* the alphabet of the encode call of the state
EncodeAlphabet ==
    IF op = "base64.encode"
    THEN base64GetAlphabet(arg.options.urlSafe = Some(TRUE))
    ELSE base32GetAlphabet(op = "base32hex.encode")

\* C20: encode of n bytes emits ceil(8n/g) symbols of the alphabet (g = 6 for Base64,
\* 5 for Base32), the leftover bits of the last symbol being zero; with padding
\* (requested or by default) "=" follows, only at the end, up to the next multiple of
\* 4 (Base64) or 8 (Base32) characters, and without padding nothing follows; the empty
\* input gives the empty text.
C20_EncodeLength ==
    op \in {"base64.encode", "base32.encode", "base32hex.encode"} =>
        LET text    == ret.value.val
            n       == Len(held.bytes)
            g       == IF op = "base64.encode" THEN 6 ELSE 5
            block   == IF op = "base64.encode" THEN 4 ELSE 8
            symbols == (8 * n + g - 1) \div g
            padding == arg.options.padding # Some(FALSE)
            pads    == IF padding THEN (block - (symbols % block)) % block ELSE 0
            value   == createDecodeMap(EncodeAlphabet)
        IN  /\ Len(text) = symbols + pads
            /\ \A i \in 1..symbols : text[i] \in Range(EncodeAlphabet)
            /\ \A i \in (symbols + 1)..Len(text) : text[i] = PadChar
            /\ padding => Len(text) % block = 0 /\ pads < block
            /\ n > 0 => value[text[symbols]] % Pow2(symbols * g - 8 * n) = 0
            /\ n = 0 => text = <<>>

\* one byte in Base64 with padding: two symbols, the second with four zero bits, and
\* two pad characters
C20_Witness ==
    /\ op = "base64.encode"
    /\ held.bytes = <<255>>
    /\ arg.options.padding = None
    /\ ret = Ok(Str(Txt(<<"/", "w", "=", "=">>)))

(***************************************************************************)
(* C21: the grammar of parseSetCookies.                                    *)
(***************************************************************************)
\* the segments of an entry: its pieces between ';', trimmed
EntrySegments(entry) ==
    LET pieces == Split(entry, Semicolon)
    IN  [k \in 1..Len(pieces) |-> Trim(pieces[k])]

\* the positions of '=' in a segment, the text before the first one (the whole segment
\* without one) and the text after it
EqualsAt(segment) == {p \in 1..Len(segment) : segment[p] = 61}
SegmentName(segment) ==
    IF EqualsAt(segment) = {} THEN segment
    ELSE SubSeq(segment, 1, Least(EqualsAt(segment)) - 1)
SegmentValue(segment) ==
    IF EqualsAt(segment) = {} THEN <<>>
    ELSE SubSeq(segment, Least(EqualsAt(segment)) + 1, Len(segment))

\* the recognized attribute names and their fields
RecognizedFields ==
    {<<MaxAgeName, MaxAgeField>>, <<ExpiresField, ExpiresField>>,
     <<DomainField, DomainField>>, <<PathField, PathField>>,
     <<SecureField, SecureField>>, <<HttpOnlyName, HttpOnlyField>>,
     <<SameSiteName, SameSiteField>>, <<PartitionedField, PartitionedField>>}
IsRecognized(segment) ==
    \E pair \in RecognizedFields : ToLowerCase(Trim(SegmentName(segment))) = pair[1]

\* the field that segment k of an entry writes: value for the first segment, the
\* recognized field, or the attribute name as it stands
FieldWritten(segments, k) ==
    IF k = 1 THEN ValueField
    ELSE IF IsRecognized(segments[k])
    THEN The({pair[2] : pair \in {q \in RecognizedFields :
                                      q[1] = ToLowerCase(Trim(SegmentName(segments[k])))}})
    ELSE SegmentName(segments[k])

\* The object of an entry follows the grammar: its fields are the fields its segments
\* write, and each field holds what the last segment writing it gives: the text after
\* the first '=' for the value and for an extension field, true for a flag.
ObjectAsGrammar(segments, obj) ==
    /\ DOMAIN obj = {FieldWritten(segments, k) : k \in 1..Len(segments)}
    /\ \A k \in 1..Len(segments) :
           (\A l \in (k + 1)..Len(segments) :
                FieldWritten(segments, l) # FieldWritten(segments, k)) =>
               LET field == FieldWritten(segments, k)
               IN  IF k = 1 \/ ~IsRecognized(segments[k])
                   THEN obj[field] = Str(SegmentValue(segments[k]))
                   ELSE field \in {SecureField, HttpOnlyField, PartitionedField} =>
                            obj[field] = Bool(TRUE)

\* The map follows the grammar: its names are the non-empty names of the entries
\* between ", ", and each name holds the object of the last entry with that name.
ParsedAsGrammar(text, map) ==
    LET entries == Split(text, <<44, 32>>)
        name(i) == SegmentName(EntrySegments(entries[i])[1])
        kept    == {i \in 1..Len(entries) : name(i) # <<>>}
    IN  /\ DOMAIN map = {name(i) : i \in kept}
        /\ \A i \in kept :
               (\A j \in kept : j > i => name(j) # name(i)) =>
                   ObjectAsGrammar(EntrySegments(entries[i]), map[name(i)])

\* C21: parseSetCookies splits the header into entries on ", " and each entry on ';';
\* the first segment gives the name and the value, split at the first '='; an entry
\* with an empty name is dropped; every remaining segment whose name is, whatever its
\* case, one of max-age, expires, domain, path, secure, httponly, samesite,
\* partitioned sets the recognized field, and every other attribute name is stored as
\* it stands as an extension field with its value.
C21_SetCookieGrammar ==
    op = "parseSetCookies" =>
        /\ ret.kind = "ok"
        /\ ParsedAsGrammar(arg.setCookieString, ret.value.val)

(***************************************************************************)
(* C23: the number of bytes the decoders emit.                             *)
(***************************************************************************)
\* the bytes of a finished decode: what base64Decode hands to the TextDecoder of
\* base64.decode, and what base32.decode returns
DecodedBytes ==
    IF op = "base64.decode"
    THEN base64Decode(arg.data,
                      base64GetAlphabet(Ord("-") \in Range(arg.data)
                                            \/ Ord("_") \in Range(arg.data))).value
    ELSE ret.value.val

\* the number of characters of a text other than '='
NonPadSymbols(text) == Cardinality({i \in 1..Len(text) : text[i] # PadChar})

\* C23: for every text that decodes, with n symbols other than '=', decode emits
\* exactly floor(g * n / 8) bytes, g = 6 for Base64 and 5 for Base32: the leftover bits
\* of a trailing partial group are discarded and pad characters give no bytes, so a
\* Base64 text of n = 1 mod 4 symbols, or a chunk of '=' only, adds no byte.
C23_DecodeByteCount ==
    (op \in {"base64.decode", "base32.decode", "base32hex.decode"} /\ ret.kind = "ok") =>
        Len(DecodedBytes)
            = ((IF op = "base64.decode" THEN 6 ELSE 5) * NonPadSymbols(arg.data)) \div 8

(***************************************************************************)
(* C25: the target filter of parseCookies.                                 *)
(***************************************************************************)
\* the pairs of the header of the call, and the positions of the pairs that have an
\* '=' and a permitted name: all of them, and those named name
HeaderPairs == Split(Trim(arg.cookie), Semicolon)
NamedPairs ==
    {i \in 1..Len(HeaderPairs) :
         PairEq(HeaderPairs[i]) # 0 /\ validCookieNameRegEx(PairName(HeaderPairs[i]))}
PairsNamed(name) == {i \in NamedPairs : PairName(HeaderPairs[i]) = name}
\* those of them whose value has only permitted characters
WellFormed(positions) ==
    {i \in positions : validCookieValueRegEx(PairValue(HeaderPairs[i]))}
Greatest(positions) == CHOOSE i \in positions : \A j \in positions : j <= i

\* the value of pair i as the map holds it: percent-decoded, for a signed target pair
\* its segment before the first '.'
EntryOf(i, signed) ==
    decodeURIComponent(IF signed THEN SplitSigned(PairValue(HeaderPairs[i])).value
                       ELSE PairValue(HeaderPairs[i])).value

\* hmac.verify of the signature of pair i over its value segment accepts
PairVerifies(i, key) ==
    LET parts == SplitSigned(PairValue(HeaderPairs[i]))
    IN  /\ parts.signature # None
        /\ SubtleVerify("SHA-256", TextEncode(key), TextEncode(Get(parts.signature)),
                        TextEncode(parts.value))

\* with an empty target name the map holds all well-formed pairs, a later pair of a
\* name over an earlier one
AllWellFormedReturned(map) ==
    /\ DOMAIN map = {PairName(HeaderPairs[i]) : i \in WellFormed(NamedPairs)}
    /\ \A name \in DOMAIN map :
           map[name] = EntryOf(Greatest(WellFormed(PairsNamed(name))), FALSE)

\* C25 as the document states it: with a non-empty target name the returned map has
\* no entry under another name, and its one entry reflects the last pair with the
\* target name: a later pair with that name overwrites the earlier one or, on failed
\* verification, deletes it; with an empty target name all well-formed pairs are
\* returned.
C25_LastPairWins ==
    (op = "parseCookies" /\ ret.kind = "ok") =>
        LET map    == ret.value.val
            name   == arg.name
            signed == arg.signed # None
            last   == Greatest(PairsNamed(name))
        IN  IF name = <<>> THEN AllWellFormedReturned(map)
            ELSE /\ DOMAIN map \subseteq {name}
                 /\ name \in DOMAIN map =>
                        /\ PairsNamed(name) # {}
                        /\ map[name] = EntryOf(last, signed)
                 /\ (signed /\ PairsNamed(name) # {}
                         /\ ~PairVerifies(last, Get(arg.signed))) =>
                        name \notin DOMAIN map

\* C25: with a non-empty target name the map parseCookies returns has no entry under
\* another name.  Without a key its one entry is the value of the last pair with the
\* target name whose value is well-formed (a later pair with a malformed value leaves
\* the earlier entry), and there is none without such a pair; with a key the last pair
\* with the target name decides: its value segment when its signature verifies, no
\* entry when it does not.  With an empty target name all well-formed pairs are
\* returned.
C25_TargetFilter ==
    (op = "parseCookies" /\ ret.kind = "ok") =>
        LET map    == ret.value.val
            name   == arg.name
            signed == arg.signed # None
            stored == IF signed THEN PairsNamed(name) ELSE WellFormed(PairsNamed(name))
            last   == Greatest(stored)
            kept   == /\ stored # {}
                      /\ signed => PairVerifies(last, Get(arg.signed))
        IN  IF name = <<>> THEN AllWellFormedReturned(map)
            ELSE /\ DOMAIN map \subseteq {name}
                 /\ name \in DOMAIN map <=> kept
                 /\ kept => map[name] = EntryOf(last, signed)

\* "t=123; a=456; t=a\b" read for t without a key: the pair of a is left out and the
\* malformed later pair of t leaves the entry of the first
C25_Witness ==
    /\ op = "parseCookies"
    /\ arg = [cookie |-> HeaderMalformedLater, name |-> NameT, signed |-> None]
    /\ ret = Ok([type |-> "Map", val |-> MapSet(EmptyMap, NameT, Value123)])

(***************************************************************************)
(* Invocations in flight.  The public operations are async functions: an   *)
(* invocation runs to its next await on the keyed-hash provider, is        *)
(* suspended while the provider works, and runs on when the provider       *)
(* settles; between the two, other invocations and the clock may move.      *)
(* held.frames holds one frame per invocation: its call, its position, the *)
(* request it waits for, its local variables, the instants it read from    *)
(* the clock, the requests it made, and its outcome once it has one.       *)
(***************************************************************************)
\* most invocations in flight together
MaxTasks == 2

\* the requests hmac.sign and hmac.verify hand to the provider for a string key
SignRequest(hmacKey, data, hash) ==
    [fn |-> "sign", hash |-> hash, key |-> BytesOf(hmacKey), signature |-> None,
     data |-> BytesOf(data)]
VerifyRequest(hmacKey, signature, data) ==
    [fn |-> "verify", hash |-> "SHA-256", key |-> BytesOf(hmacKey),
     signature |-> IF signature = None THEN None ELSE Some(BytesOf(Get(signature))),
     data |-> BytesOf(data)]

\* what the provider settles a request with when it works: the MAC, the verdict, or
\* the TypeError of a verify without a signature
Provider(request) ==
    IF request.fn = "sign"
    THEN Ok(Bytes(SubtleSign(request.hash, request.key, request.data)))
    ELSE IF request.signature = None THEN Throw("TypeError", <<>>)
    ELSE Ok(Bool(SubtleVerify(request.hash, request.key, Get(request.signature),
                              request.data)))

\* what it settles a request with when it fails
ProviderFailure == Throw("OperationError", <<>>)

NewFrame(call) ==
    [call |-> call, pc |-> "running", pending |-> None, local |-> [none |-> TRUE],
     readings |-> <<>>, probes |-> <<>>, out |-> None, rejected |-> FALSE]

\* the frame suspended on a request, and the frame returned or thrown out of
Awaiting(frame, request, local) ==
    [frame EXCEPT !.pc = "awaiting", !.pending = Some(request), !.local = local,
                  !.probes = Append(@, request)]
Done(frame, outcome) ==
    [frame EXCEPT !.pc = "done", !.pending = None, !.out = Some(outcome)]

\* generateHOTP up to its await (lines 169-176): the error of the digits, or the
\* request and the digits
generateHOTP_begin(engine, secret, counter, digits) ==
    LET _digits == IF digits = None THEN engine.digits ELSE Get(digits)
    IN  IF _digits < 1 \/ _digits > 8 THEN [kind |-> "throw", ret |-> DigitsError]
        ELSE [kind    |-> "await",
              request |-> SignRequest(Str(secret), Bytes(CounterBytes(counter)),
                                      engine.hash),
              digits  |-> _digits]

\* generateHOTP after its await (lines 176-184): the OTP of the MAC
generateHOTP_end(hmacResult, _digits) ==
    PadStart(ToDecimal(Truncate(hmacResult) % Pow10(_digits)), _digits, Ord("0"))

generateHOTP_start(frame) ==
    LET begun == generateHOTP_begin(frame.call.engine, frame.call.secret,
                                    frame.call.counter, frame.call.digits)
    IN  IF begun.kind = "throw" THEN Done(frame, begun.ret)
        ELSE Awaiting(frame, begun.request, [digits |-> begun.digits])

generateHOTP_resume(frame, outcome) ==
    IF outcome.kind = "throw" THEN Done(frame, outcome)
    ELSE Done(frame, Ok(Str(generateHOTP_end(outcome.value.val, frame.local.digits))))

\* the head of the loop of verifyTOTP at the offset i (lines 216-220), up to the await
\* inside generateHOTP
verifyTOTP_loop(frame, counter, i, window, digits) ==
    IF i > window THEN Done(frame, Ok(Bool(FALSE)))
    ELSE LET begun == generateHOTP_begin(frame.call.engine, frame.call.options.secret,
                                         counter + i, Some(digits))
         IN  IF begun.kind = "throw" THEN Done(frame, begun.ret)
             ELSE Awaiting(frame, begun.request,
                           [counter |-> counter, i |-> i, window |-> window,
                            digits |-> digits])

\* verifyTOTP from its call to its first await: it reads the clock (line 215)
verifyTOTP_start(frame, clock) ==
    LET engine       == frame.call.engine
        options      == frame.call.options
        window       == IF options.window = None THEN 1 ELSE Get(options.window)
        digits       == IF options.digits = None THEN engine.digits ELSE Get(options.digits)
        seconds      == IF options.seconds = None THEN engine.seconds ELSE Get(options.seconds)
        milliseconds == seconds * 1000
        counter      == clock \div milliseconds
    IN  verifyTOTP_loop([frame EXCEPT !.readings = Append(@, clock)], counter, 0 - window,
                        window, digits)

\* verifyTOTP that reads the clock again when the provider settles
verifyTOTP_resume_RereadsClock(frame, outcome, clock) ==
    LET seconds == IF frame.call.options.seconds = None THEN frame.call.engine.seconds
                   ELSE Get(frame.call.options.seconds)
    IN  IF outcome.kind = "throw" THEN Done(frame, outcome)
        ELSE IF frame.call.otp = generateHOTP_end(outcome.value.val, frame.local.digits)
        THEN Done(frame, Ok(Bool(TRUE)))
        ELSE verifyTOTP_loop(frame, clock \div (seconds * 1000), frame.local.i + 1,
                             frame.local.window, frame.local.digits)

\* verifyTOTP that goes on to the next offset when the provider fails
verifyTOTP_resume_SkipsFailure(frame, outcome, clock) ==
    IF outcome.kind = "ok"
           /\ frame.call.otp = generateHOTP_end(outcome.value.val, frame.local.digits)
    THEN Done(frame, Ok(Bool(TRUE)))
    ELSE verifyTOTP_loop(frame, frame.local.counter, frame.local.i + 1,
                         frame.local.window, frame.local.digits)

\* verifyTOTP from the settling of a probe (lines 217-225): the failure, true, or the
\* next offset
verifyTOTP_resume(frame, outcome, clock) ==
    IF outcome.kind = "throw" THEN Done(frame, outcome)
    ELSE IF frame.call.otp = generateHOTP_end(outcome.value.val, frame.local.digits)
    THEN Done(frame, Ok(Bool(TRUE)))
    ELSE verifyTOTP_loop(frame, frame.local.counter, frame.local.i + 1,
                         frame.local.window, frame.local.digits)

\* serializeCookie from the stored value on (lines 114-181); it reads the clock when
\* it looks at expires (line 154)
serializeCookie_finish(frame, stored, clock) ==
    LET input   == frame.call.input
        encoded == encodeURIComponent(stored)
        rest    == serializeAttributes(input.name, input.attributes, clock)
    IN  Done([frame EXCEPT !.readings = Append(@, clock)],
             IF encoded.kind = "throw" THEN encoded
             ELSE IF rest.kind = "throw" THEN rest
             ELSE Ok(Str(input.name \o Equals \o encoded.value \o rest.value)))

\* serializeCookie from its call (lines 103-107): to the end without a key, to the
\* await of hmac.sign with one
serializeCookie_start(frame, clock) ==
    LET input == frame.call.input
    IN  IF input.signed = None THEN serializeCookie_finish(frame, input.value, clock)
        ELSE Awaiting(frame, SignRequest(Str(Get(input.signed)), Str(input.value),
                                         "SHA-256"),
                      [none |-> TRUE])

\* serializeCookie from the settling of hmac.sign (lines 106-114); the await of
\* base64.encode (line 108) is not one on the provider and runs on at once
serializeCookie_resume(frame, outcome, clock) ==
    IF outcome.kind = "throw" THEN Done(frame, outcome)
    ELSE serializeCookie_finish(frame,
                                frame.call.input.value \o Dot
                                    \o base64_encode(outcome.value,
                                                     [urlSafe |-> Some(TRUE),
                                                      padding |-> Some(FALSE)]),
                                clock)

\* verifySignedCookie from its call (lines 192-200) and from the settling of hmac.verify
verifySignedCookie_start(frame) ==
    LET parts == SplitSigned(frame.call.cookie)
    IN  IF parts.value = <<>> \/ parts.signature = None \/ parts.signature = Some(<<>>)
        THEN Done(frame, Ok(Bool(FALSE)))
        ELSE Awaiting(frame,
                      VerifyRequest(Str(frame.call.key), Some(Str(Get(parts.signature))),
                                    Str(parts.value)),
                      [none |-> TRUE])

verifySignedCookie_resume(frame, outcome) == Done(frame, outcome)

\* the loop of parseCookies from the pair i with the map cookies (lines 212-245), up
\* to the await of hmac.verify for a pair with the target name, or to the end
RECURSIVE parseCookies_from(_, _, _)
parseCookies_from(frame, cookies, i) ==
    LET pairs == Split(Trim(frame.call.cookie), Semicolon)
        name  == frame.call.name
    IN  IF i > Len(pairs) THEN Done(frame, Ok([type |-> "Map", val |-> cookies]))
        ELSE IF PairEq(pairs[i]) = 0 THEN parseCookies_from(frame, cookies, i + 1)
        ELSE LET cookieName  == PairName(pairs[i])
                 cookieValue == PairValue(pairs[i])
                 decoded     == decodeURIComponent(cookieValue)
                 kept        == IF validCookieValueRegEx(cookieValue)
                                THEN MapSet(cookies, cookieName, decoded.value)
                                ELSE cookies
                 parts       == SplitSigned(cookieValue)
             IN  IF (name # <<>> /\ name # cookieName)
                        \/ ~validCookieNameRegEx(cookieName)
                 THEN parseCookies_from(frame, cookies, i + 1)
                 ELSE IF validCookieValueRegEx(cookieValue) /\ decoded.kind = "throw"
                 THEN Done(frame, decoded)
                 ELSE IF frame.call.signed # None /\ cookieName = name
                 THEN Awaiting(frame,
                               VerifyRequest(Str(Get(frame.call.signed)),
                                             IF parts.signature = None THEN None
                                             ELSE Some(Str(Get(parts.signature))),
                                             Str(parts.value)),
                               [cookies |-> kept, i |-> i])
                 ELSE parseCookies_from(frame, kept, i + 1)

\* parseCookies from the settling of hmac.verify for the pair it waits on (lines
\* 235-243)
parseCookies_resume(frame, outcome) ==
    LET pair       == Split(Trim(frame.call.cookie), Semicolon)[frame.local.i]
        cookieName == PairName(pair)
        decoded    == decodeURIComponent(SplitSigned(PairValue(pair)).value)
    IN  IF outcome.kind = "throw" THEN Done(frame, outcome)
        ELSE IF outcome.value.val
        THEN IF decoded.kind = "throw" THEN Done(frame, decoded)
             ELSE parseCookies_from(frame,
                                    MapSet(frame.local.cookies, cookieName, decoded.value),
                                    frame.local.i + 1)
        ELSE parseCookies_from(frame, MapDelete(frame.local.cookies, cookieName),
                               frame.local.i + 1)

\* an invocation from its call to its first await or its end, at the instant clock
Begin(frame, clock) ==
    CASE frame.call.fn = "generateHOTP" -> generateHOTP_start(frame)
      [] frame.call.fn = "verifyTOTP" -> verifyTOTP_start(frame, clock)
      [] frame.call.fn = "serializeCookie" -> serializeCookie_start(frame, clock)
      [] frame.call.fn = "verifySignedCookie" -> verifySignedCookie_start(frame)
      [] frame.call.fn = "parseCookies" -> parseCookies_from(frame, EmptyMap, 1)

\* an invocation from the settling of its request to its next await or its end
Resume(frame, outcome, clock) ==
    CASE frame.call.fn = "generateHOTP" -> generateHOTP_resume(frame, outcome)
      [] frame.call.fn = "verifyTOTP" -> verifyTOTP_resume(frame, outcome, clock)
      [] frame.call.fn = "serializeCookie" -> serializeCookie_resume(frame, outcome, clock)
      [] frame.call.fn = "verifySignedCookie" -> verifySignedCookie_resume(frame, outcome)
      [] frame.call.fn = "parseCookies" -> parseCookies_resume(frame, outcome)

\* the OTP of a counter on an engine
HotpAt(engine, counter) == generateHOTP(engine, Secret, counter, None).ret.value.val

ShortEngine == createOTP("SHA-256", 8, 3)

\* the calls of a run of several invocations: one or two of each public operation
TaskCalls ==
    {[fn |-> "generateHOTP", engine |-> DefaultEngine, secret |-> Secret, counter |-> 1,
      digits |-> None],
     [fn |-> "verifyTOTP", engine |-> ShortEngine, otp |-> HotpAt(ShortEngine, 1),
      options |-> [window |-> None, digits |-> None, secret |-> Secret,
                   seconds |-> None]],
     [fn |-> "serializeCookie",
      input |-> [name |-> NameT, value |-> Value123,
                 attributes |-> Some([NoAttributes EXCEPT
                                         !.expires = Some(Date(Some([FourHundredDays
                                                                        EXCEPT !.ms = 1])))]),
                 signed |-> Some(KeyText)]],
     [fn |-> "verifySignedCookie", cookie |-> VerifiableValue, key |-> KeyText],
     [fn |-> "parseCookies", cookie |-> HeaderBadThenT \o VerifiableValue, name |-> NameT,
      signed |-> Some(KeyText)]}

\* the calls of a run of one verifyTOTP
ProbeCalls ==
    {[fn |-> "verifyTOTP", engine |-> engine, otp |-> otp,
      options |-> [window |-> window, digits |-> digits, secret |-> Secret,
                   seconds |-> seconds]] :
        engine \in Engines,
        otp \in {HotpAt(ShortEngine, 1), HotpAt(ShortEngine, 9), HotpAt(DefaultEngine, 0),
                 WrongOtp},
        window \in {None, Some(-1), Some(0), Some(2)},
        digits \in {None, Some(9)},
        seconds \in {None, Some(3)}}

\* nothing is invoked yet; the clock stands at some instant
InitTasks ==
    /\ op = "invocations"
    /\ arg = [none |-> TRUE]
    /\ ret = Ok([type |-> "undefined"])
    /\ calls = <<>>
    /\ now = 0
    /\ held = [kind |-> "tasks", at |-> now, frames |-> <<>>]

InitProbes ==
    /\ op = "invocations"
    /\ arg = [none |-> TRUE]
    /\ ret = Ok([type |-> "undefined"])
    /\ calls = <<>>
    /\ now \in StartInstants
    /\ held = [kind |-> "probes", at |-> now, frames |-> <<>>]

\* a caller invokes an operation: it runs to its first await or to its end
Invoke ==
    /\ op = "invocations"
    /\ Len(held.frames) < (IF held.kind = "tasks" THEN MaxTasks ELSE 1)
    /\ \E call \in (IF held.kind = "tasks" THEN TaskCalls ELSE ProbeCalls) :
           held' = [held EXCEPT !.frames = Append(@, Begin(NewFrame(call), now))]
    /\ UNCHANGED <<op, arg, ret, calls, now>>

\* the provider settles the request of a suspended invocation, which runs on
Settle ==
    /\ op = "invocations"
    /\ \E t \in 1..Len(held.frames) :
           /\ held.frames[t].pc = "awaiting"
           /\ held' = [held EXCEPT
                          !.frames[t] = Resume(@, Provider(Get(@.pending)), now)]
    /\ UNCHANGED <<op, arg, ret, calls, now>>

\* the provider fails the request of the suspended verifyTOTP
Reject ==
    /\ op = "invocations"
    /\ held.kind = "probes"
    /\ \E t \in 1..Len(held.frames) :
           /\ held.frames[t].pc = "awaiting"
           /\ held' = [held EXCEPT
                          !.frames[t] = Resume([@ EXCEPT !.rejected = TRUE],
                                               ProviderFailure, now)]
    /\ UNCHANGED <<op, arg, ret, calls, now>>

\* the clock advances while invocations are in flight
Elapse ==
    /\ op = "invocations"
    /\ now + ClockStep <= held.at + MaxTicks * ClockStep
    /\ now' = now + ClockStep
    /\ UNCHANGED <<op, arg, ret, calls, held>>

\* several invocations in flight, the provider working
NextTasks ==
    \/ Invoke
    \/ Settle
    \/ Elapse

\* one verifyTOTP in flight, the provider working or failing
NextProbes ==
    \/ Invoke
    \/ Settle
    \/ Reject
    \/ Elapse

SpecTasks == InitTasks /\ [][NextTasks]_vars
SpecProbes == InitProbes /\ [][NextProbes]_vars

(***************************************************************************)
(* C22: invocations in flight together do not disturb one another.         *)
(***************************************************************************)
\* what the call of a frame returns when it runs alone, from its call to its end, at
\* the instant the frame read from the clock
RunAlone(frame) ==
    LET call  == frame.call
        clock == frame.readings[1]
    IN  CASE call.fn = "generateHOTP" ->
                 generateHOTP(call.engine, call.secret, call.counter, call.digits).ret
          [] call.fn = "verifyTOTP" ->
                 verifyTOTP(call.engine, clock, call.otp, call.options).ret
          [] call.fn = "serializeCookie" -> serializeCookie(call.input, clock).ret
          [] call.fn = "verifySignedCookie" ->
                 verifySignedCookie(call.cookie, call.key).ret
          [] call.fn = "parseCookies" ->
                 parseCookies(call.cookie, call.name, call.signed).ret

\* every finished invocation has the outcome of its call run alone
SameAsAlone ==
    op = "invocations" =>
        \A t \in 1..Len(held.frames) :
            held.frames[t].pc = "done" =>
                held.frames[t].out = Some(RunAlone(held.frames[t]))

\* a step writes the frame of at most one invocation and nothing that the invocations
\* share
WritesOwnFrame ==
    op = "invocations" =>
        /\ UNCHANGED <<op, arg, ret, calls>>
        /\ Len(held'.frames) >= Len(held.frames)
        /\ \A t, u \in 1..Len(held.frames) :
               (t # u /\ held'.frames[t] # held.frames[t]) =>
                   held'.frames[u] = held.frames[u]

\* C22: invocations of generateHOTP, verifyTOTP, serializeCookie, verifySignedCookie
\* and parseCookies, interleaved in any way at their awaits on the provider, each
\* return what they return when run alone with the same inputs and clock readings,
\* and no invocation writes state that another one reads.
C22_Reentrancy == []SameAsAlone /\ [][WritesOwnFrame]_vars

\* a serializeCookie invoked first that ended at the instant 6000, after a verifyTOTP
\* invoked at the instant 3000 that found its OTP at the second probe: the second ran
\* while the first was suspended, and both have ended
C22_Witness ==
    /\ op = "invocations"
    /\ Len(held.frames) = 2
    /\ held.frames[1].call.fn = "serializeCookie"
    /\ held.frames[1].readings = <<6000>>
    /\ held.frames[1].out # None
    /\ Get(held.frames[1].out).kind = "ok"
    /\ held.frames[2].call.fn = "verifyTOTP"
    /\ held.frames[2].readings = <<3000>>
    /\ Len(held.frames[2].probes) = 2
    /\ held.frames[2].out = Some(Ok(Bool(TRUE)))

(***************************************************************************)
(* C24: the probes of verifyTOTP.                                          *)
(***************************************************************************)
\* the window, the digits and the step in milliseconds of a verifyTOTP call
WindowOf(call) ==
    IF call.options.window = None THEN 1 ELSE Get(call.options.window)
DigitsOf(call) ==
    IF call.options.digits = None THEN call.engine.digits ELSE Get(call.options.digits)
StepOf(call) ==
    1000 * (IF call.options.seconds = None THEN call.engine.seconds
            ELSE Get(call.options.seconds))

\* the probe of the counter n of a call matches its OTP
ProbeMatches(call, n) ==
    generateHOTP(call.engine, call.options.secret, n, Some(DigitsOf(call))).ret
        = Ok(Str(call.otp))

\* The probes of one verifyTOTP frame: one clock reading; the provider asked for the
\* counters from counter - window on, one by one in rising order, at most
\* 2 * window + 1 times and never after a match; a failure of the provider ends the
\* call with that failure; the call ends with true at a match and with false after
\* the mismatch of all 2 * window + 1 probes.
ProbesInOrder(frame) ==
    LET call    == frame.call
        window  == WindowOf(call)
        counter == frame.readings[1] \div StepOf(call)
        made    == Len(frame.probes)
        most    == IF window < 0 THEN 0 ELSE 2 * window + 1
        valid   == DigitsOf(call) >= 1 /\ DigitsOf(call) <= 8
    IN  /\ Len(frame.readings) = 1
        /\ made <= most
        /\ \A k \in 1..made :
               /\ frame.probes[k].fn = "sign"
               /\ frame.probes[k].hash = call.engine.hash
               /\ frame.probes[k].key = TextEncode(call.options.secret)
               /\ frame.probes[k].data = CounterBytes(counter - window + k - 1)
        /\ \A k \in 1..(made - 1) : ~ProbeMatches(call, counter - window + k - 1)
        /\ ~valid => made = 0
        /\ frame.pc = "awaiting" => made > 0 /\ ~frame.rejected
        /\ frame.rejected => frame.pc = "done" /\ frame.out = Some(ProviderFailure)
        /\ (frame.pc = "done" /\ ~frame.rejected /\ valid) =>
               /\ frame.out = Some(Ok(Bool(TRUE))) <=>
                      (made > 0 /\ ProbeMatches(call, counter - window + made - 1))
               /\ frame.out = Some(Ok(Bool(FALSE))) <=>
                      (made = most
                           /\ \A k \in 1..made : ~ProbeMatches(call, counter - window + k - 1))
               /\ frame.out \in {Some(Ok(Bool(TRUE))), Some(Ok(Bool(FALSE)))}

\* C24: within one verifyTOTP call the clock is read once and the provider is invoked
\* for the counters counter - window, ..., counter + window in that order, at most
\* 2 * window + 1 times and not after the first matching OTP; a provider failure at a
\* probe before a match ends the call with that failure, without a retry, and a
\* mismatch on every probe ends it with false.
C24_ProbeOrdering ==
    op = "invocations" =>
        \A t \in 1..Len(held.frames) :
            held.frames[t].call.fn = "verifyTOTP" => ProbesInOrder(held.frames[t])

\* a verifyTOTP with window 2 invoked at the instant 6000 (counter 2 of a 3 s step),
\* whose first two probes, of the counters 0 and 1, did not match and whose third
\* the provider failed after the clock had moved on: it ended with that failure
C24_Witness ==
    /\ op = "invocations"
    /\ now = 12000
    /\ Len(held.frames) = 1
    /\ held.frames[1].call.engine = ShortEngine
    /\ held.frames[1].call.otp = HotpAt(ShortEngine, 9)
    /\ held.frames[1].call.options.window = Some(2)
    /\ held.frames[1].readings = <<6000>>
    /\ Len(held.frames[1].probes) = 3
    /\ held.frames[1].probes[3].data = CounterBytes(2)
    /\ held.frames[1].rejected
    /\ held.frames[1].out = Some(ProviderFailure)

====
